---------------------------- MODULE Spec2Model ----------------------------
(***************************************************************************)
(* A model of replayer: the frame slot pool and the handoff queue of       *)
(* src/src/utils.h, the capture source of src/src/xcompgrab.c, the writer  *)
(* of src/src/writer.cpp and the capture loop of src/src/main.cpp.         *)
(*                                                                         *)
(* Each component has its own specification over the shared variables:     *)
(*   SpecPool     two threads on one frame_buffers                         *)
(*   SpecQueue    one producer and one consumer on one concurrent_deque    *)
(*   SpecSess     one capture session: read_header, read_packet with a     *)
(*                consumer that frees the packets, read_close              *)
(*   SpecPipe     the capture loop of main and the writer thread           *)
(* The variables a specification does not use keep their initial value.    *)
(***************************************************************************)
EXTENDS Integers, Sequences, FiniteSets, TLC

(***************************************************************************)
(* Bounds of the model.                                                    *)
(***************************************************************************)
\* largest pool size n handed to frame_buffers(n) in SpecPool
MaxN == 3

\* number of push calls made in SpecQueue
MaxPush == 3
\* tmout_ms of pop, in clock ticks
Tmout == 2
\* the longest a thread whose wait has timed out stays unscheduled, in ticks
WakeLatency == 1
\* the clock of SpecQueue stops here
MaxTime == 6

\* read_close calls made from outside read_header in SpecSess
MaxClose == 2

\* xcompgrab.c, lines 250-252
BUF_SYSTEM == 0
BUF_INTERNAL == 1
BUF_GLPBO == 2
\* the number of slices read_header asks pvt_init_membuffer and
\* pvt_init_pbobuffer for (8 in read_header)
NSlices == 3
\* AV_TIME_BASE of libavutil: the microseconds of a second
AV_TIME_BASE == 1000000

\* the clock of the capture session stops here, in microseconds
MaxClock == 1000000
\* and here when the clock is not a simulated one
RealClock == 400000
\* the "consumer is too slow" warnings of one run
MaxWarn == 2
\* allocation failures injected into the read_packet calls of one run
MaxFail == 1
\* the longest av_usleep sleeps beyond the delay asked for, in microseconds
OverUs == 1000
\* the time the caller of read_packet may spend between two calls
WorkUs == 150000
\* the frames the capture loop pushes before it stops (10*FPS in main.cpp)
MAX_FRAMES == 4
\* the frame holders of frame_bufs (16 in main.cpp)
PoolSize == 3
\* the most frames the encoder buffers before it emits
MaxDelay == 2
\* the most frames the encoder codes together
MaxGroup == 2
\* the most calls of start and stop a client makes
MaxCalls == 10

\* the two long-lived threads
Threads == {"capture", "writer"}

VARIABLES
    \* ---- utils::frame_buffers / utils::frame_holder
    n_,         \* frame_buffers::n_
    used,       \* fh_[i].used, i in 0..n_-1
    gpc,        \* per thread: "idle", "scan" (inside get_one), "threw"
    gi,         \* per thread: loop index i of get_one
    held,       \* per thread: the slots whose pointer the thread got from
                \* get_one and has not released yet
    gret,       \* per thread: how its last call ended: "none" (no call yet),
                \* "slot", "null" (get_one), "released", "threw" (release)
    \* ---- utils::concurrent_deque
    d_,         \* concurrent_deque::d_
    qnow,       \* the clock wait_for reads
    cpc,        \* the consumer: "idle" or "waiting" (blocked in cv_.wait_for)
    cdeadline,  \* the absolute time at which the wait_for of the pop times out
    cstart,     \* the time at which the pop in progress (or the last) was called
    cend,       \* the time at which the last pop returned
    cret,       \* how the last pop ended: "none", "item" (true), "timeout" (false)
    pushed,     \* every item pushed so far, in order
    popped,     \* every item a pop has returned so far, in order
    \* ---- xcompgrab.c
    c,          \* the XCompGrabCtx of the session
    env,        \* the resources and heap blocks outside it, the releases
                \* made, the faults committed
    opc,        \* the position of read_header: "start", one name per step,
                \* "err_exit", then "ready", "failed" or (closed after a
                \* successful open) "closed"
    rv,         \* the value read_header returns
    configs,    \* read_header's local configs: 0 or the array
    is_x_error, \* the static is_x_error
    handler,    \* the X error handler installed: "prev" or "pvt"
    prev_x_error_handler,   \* read_header's local: 0 or the saved handler
    xclose,     \* read_close calls made from outside read_header
    now,        \* av_gettime(), in microseconds
    clockmode,  \* "exact": av_usleep(d) returns after exactly d and the
                \* caller takes no time (a simulated clock); "real": it may
                \* return later and the caller may take time
    ticks,      \* the calls of read_packet made
    units,      \* the number of packets read_packet has delivered
    outst,      \* the delivered packets on a slice the consumer still
                \* holds: the slice, whether the packet has a
                \* reference-counted buffer
    heapout,    \* the number of delivered heap packets it still holds
    rp,         \* the last call of read_packet: what it returned, the slice
                \* it claimed, whether every slice was claimed when it
                \* began, its anchor, the time its wait ended, whether it
                \* logged the "consumer is too slow" warning, the timestamp
                \* of the last packet delivered and of the one before
    warns,      \* the warnings logged
    nfail,      \* the allocation failures met so far
    tex_bound,  \* the window pixmap is bound to the texture
    ppc,        \* where the capture loop of main is
    wpc,        \* where the writer thread is
    run,        \* the run flag
    pkt,        \* the packet av_read_frame filled: the unit it carries
                \* (0: none), the slice of its buffer, whether the buffer
                \* is reference-counted
    cur_fh,     \* the frame holder the capture loop holds (-1: none)
    w_fh,       \* the frame holder the writer popped (-1: none)
    frames,     \* per frame holder, the buffer its frame refers to
    cur_frame,  \* the frames the capture loop has pushed
    dec,        \* the decoder has a frame to hand out
    enc,        \* the frames the encoder has taken and not yet emitted
    encdelay,   \* how many frames the encoder buffers before it emits
    encgroup,   \* how many frames the encoder codes together: the packets
                \* of a group are ready once its last frame is sent
    wcopy,      \* which copy of the writer loop runs: "writer" (writer.cpp)
                \* or "main" (fn_write of main.cpp)
    iter,       \* the presentation index of the next frame submitted
    written,    \* the packets handed to av_write_frame: the unit of each
                \* (0: a packet the encoder did not fill)
    written_frames, \* the writer's count of written packets
    captured,   \* the units pushed on the queue, in order
    submitted,  \* the units sent to the encoder with their index, in order
    epc,        \* per thread that opens a session, where it is between
                \* XSetErrorHandler and the return of the open
    inflight,   \* per such thread, the error of its last request: "none",
                \* "sent" by the server, "delivered" to a handler
    eseen,      \* per such thread, what its last read of is_x_error found
    eprev,      \* per such thread, its local prev_x_error_handler
    th_,        \* writer::impl: the thread handle (0: null)
    nthr,       \* the writer threads of the instance that are running
    spc,        \* the client of the writer: the outcome of its last call
                \* of start or stop, or "joining" inside stop
    calls       \* the calls of start and stop made

poolVars == <<n_, used, gpc, gi, held, gret>>

queueVars == <<d_, qnow, cpc, cdeadline, cstart, cend, cret, pushed, popped>>

sessVars == <<c, env, opc, rv, configs, is_x_error, handler, prev_x_error_handler, xclose>>
capVars == <<now, clockmode, ticks, units, outst, heapout, rp, warns, nfail, tex_bound>>

pipeVars == <<ppc, wpc, run, pkt, cur_fh, w_fh, frames, cur_frame, dec, enc, encdelay, encgroup,
              wcopy, iter, written, written_frames, captured, submitted>>

errVars == <<epc, inflight, eseen, eprev>>

wrVars == <<th_, nthr, spc, calls>>

vars == <<poolVars, queueVars, sessVars, capVars, pipeVars, errVars, wrVars>>

\* what the actions of one component leave alone
notPool == <<queueVars, sessVars, capVars, pipeVars, errVars, wrVars>>
notQueue == <<poolVars, sessVars, capVars, pipeVars, errVars, wrVars>>
notSess == <<poolVars, queueVars, capVars, pipeVars, errVars, wrVars>>
notSessCap == <<poolVars, queueVars, pipeVars, errVars, wrVars>>

\* the threads that open a capture session at the same time
Openers == {1, 2}

\* no thread is opening a second session
ErrIdle ==
    /\ epc = [s \in Openers |-> "idle"]
    /\ inflight = [s \in Openers |-> "none"]
    /\ eseen = [s \in Openers |-> 0]
    /\ eprev = [s \in Openers |-> "prev"]

\* no writer instance of writer.cpp is driven through start and stop
WrIdle ==
    /\ th_ = 0
    /\ nthr = 0
    /\ spc = "new"
    /\ calls = 0

(***************************************************************************)
(* utils::frame_holder and utils::frame_buffers                            *)
(***************************************************************************)
Slots == 0 .. (n_ - 1)

\* frame_holder::try_lock: used.compare_exchange_strong(false, true)
try_lock_mut(i) == TRUE
try_lock(i) == used[i] = FALSE

\* frame_holder::release: the compare_exchange_strong(true, false) fails and
\* the function throws exactly when the flag is not set
release_throws_mut(i) == FALSE
release_throws(i) == used[i] = FALSE

\* frame_holder::release when it does not throw: the flags u with the flag
\* of slot i taken from set to free
release_mut(u, i) == u
release(u, i) == [u EXCEPT ![i] = FALSE]

\* no pool has been constructed
PoolIdle ==
    /\ n_ = 0
    /\ used = <<>>
    /\ gpc = [t \in Threads |-> "idle"]
    /\ gi = [t \in Threads |-> 0]
    /\ held = [t \in Threads |-> {}]
    /\ gret = [t \in Threads |-> "none"]

\* frame_buffers(n): fh_ = new frame_holder[n], each with used(false)
PoolInit ==
    /\ n_ \in 1 .. MaxN
    /\ used = [i \in 0 .. (n_ - 1) |-> FALSE]
    /\ gpc = [t \in Threads |-> "idle"]
    /\ gi = [t \in Threads |-> 0]
    /\ held = [t \in Threads |-> {}]
    /\ gret = [t \in Threads |-> "none"]

\* get_one is entered: i = 0
GetOneCall(t) ==
    /\ gpc[t] = "idle"
    /\ gpc' = [gpc EXCEPT ![t] = "scan"]
    /\ gi' = [gi EXCEPT ![t] = 0]
    /\ UNCHANGED <<n_, used, held, gret, notPool>>

\* one iteration of the loop of get_one: fh_[i].try_lock() succeeds and the
\* slot is returned, or fails and i is incremented
GetOneStep(t) ==
    /\ gpc[t] = "scan"
    /\ gi[t] < n_
    /\ IF try_lock(gi[t])
       THEN /\ used' = [used EXCEPT ![gi[t]] = TRUE]
            /\ held' = [held EXCEPT ![t] = @ \cup {gi[t]}]
            /\ gpc' = [gpc EXCEPT ![t] = "idle"]
            /\ gret' = [gret EXCEPT ![t] = "slot"]
            /\ gi' = gi
       ELSE /\ gi' = [gi EXCEPT ![t] = @ + 1]
            /\ UNCHANGED <<used, held, gpc, gret>>
    /\ UNCHANGED <<n_, notPool>>

\* the loop of get_one ends with i = n_: return 0
GetOneNone(t) ==
    /\ gpc[t] = "scan"
    /\ gi[t] >= n_
    /\ gpc' = [gpc EXCEPT ![t] = "idle"]
    /\ gret' = [gret EXCEPT ![t] = "null"]
    /\ UNCHANGED <<n_, used, gi, held, notPool>>

\* frame_holder::release on slot i by thread t. The callers of the
\* repository release a slot they hold; a release of a slot whose flag is
\* free (never acquired, or already released) is the misuse the function
\* guards against.
Release(t, i) ==
    /\ gpc[t] = "idle"
    /\ i \in Slots
    /\ i \in held[t] \/ ~used[i]
    /\ IF release_throws(i)
       THEN /\ gpc' = [gpc EXCEPT ![t] = "threw"]
            /\ gret' = [gret EXCEPT ![t] = "threw"]
            /\ UNCHANGED <<used, held>>
       ELSE /\ used' = release(used, i)
            /\ held' = [held EXCEPT ![t] = @ \ {i}]
            /\ gret' = [gret EXCEPT ![t] = "released"]
            /\ gpc' = gpc
    /\ UNCHANGED <<n_, gi, notPool>>

NextPool ==
    \E t \in Threads :
        \/ GetOneCall(t)
        \/ GetOneStep(t)
        \/ GetOneNone(t)
        \/ \E i \in 0 .. (MaxN - 1) : Release(t, i)

(***************************************************************************)
(* utils::concurrent_deque. push and the body of pop run under mtx_, so    *)
(* each is one step; a pop that finds the deque empty blocks in            *)
(* cv_.wait_for with mtx_ released, and is a step of its own when it       *)
(* wakes. The items are frame_holder pointers, named by slot index.        *)
(***************************************************************************)
Items == 0 .. (MaxN - 1)

\* concurrent_deque(): an empty deque, nobody waiting
QueueIdle ==
    /\ d_ = <<>>
    /\ qnow = 0
    /\ cpc = "idle"
    /\ cdeadline = 0
    /\ cstart = 0
    /\ cend = 0
    /\ cret = "none"
    /\ pushed = <<>>
    /\ popped = <<>>

\* d_.push_back(in)
push_back_mut(d, x) == <<x>> \o d
push_back(d, x) == Append(d, x)

\* out = *d_.begin()
begin_mut(d) == d[Len(d)]
begin(d) == Head(d)

\* d_.pop_front()
pop_front(d) == Tail(d)

\* the predicate of wait_for: !d_.empty()
NotEmpty == d_ # <<>>

\* wait_for(ul, tmout_ms, pred) waits until now + tmout_ms
wait_deadline_mut(t0) == t0
wait_deadline(t0) == t0 + Tmout

\* the timed wait inside wait_for reports a timeout once the deadline is reached
timed_out == qnow >= cdeadline

\* lines 51-53 of pop: out = *d_.begin(); d_.pop_front(); return true
TakeFront ==
    /\ popped' = Append(popped, begin(d_))
    /\ d_' = pop_front(d_)
    /\ cret' = "item"
    /\ cend' = qnow
    /\ cpc' = "idle"

\* push(in): lock, push_back, notify_all
Push(x) ==
    /\ Len(pushed) < MaxPush
    /\ d_' = push_back(d_, x)
    /\ pushed' = Append(pushed, x)
    /\ UNCHANGED <<qnow, cpc, cdeadline, cstart, cend, cret, popped, notQueue>>

\* pop is called: lock; wait_for evaluates the predicate first and returns
\* true at once on a non-empty deque, else blocks
PopCall ==
    /\ cpc = "idle"
    /\ cstart' = qnow
    /\ cdeadline' = wait_deadline(qnow)
    /\ IF NotEmpty
       THEN TakeFront
       ELSE /\ cpc' = "waiting"
            /\ UNCHANGED <<d_, cend, cret, popped>>
    /\ UNCHANGED <<qnow, pushed, notQueue>>

\* the waiting pop is woken by notify_all before the deadline and finds the
\* predicate true (a wake-up that finds it false goes back to waiting)
PopWake ==
    /\ cpc = "waiting"
    /\ ~timed_out
    /\ NotEmpty
    /\ TakeFront
    /\ UNCHANGED <<qnow, cdeadline, cstart, pushed, notQueue>>

\* the wait times out: wait_for returns pred()
PopTimeout ==
    /\ cpc = "waiting"
    /\ timed_out
    /\ IF NotEmpty
       THEN TakeFront
       ELSE /\ cret' = "timeout"
            /\ cend' = qnow
            /\ cpc' = "idle"
            /\ UNCHANGED <<d_, popped>>
    /\ UNCHANGED <<qnow, cdeadline, cstart, pushed, notQueue>>

\* the clock advances; a thread whose wait has timed out runs within
\* WakeLatency ticks
Tick ==
    /\ qnow < MaxTime
    /\ cpc = "waiting" => qnow < cdeadline + WakeLatency
    /\ qnow' = qnow + 1
    /\ UNCHANGED <<d_, cpc, cdeadline, cstart, cend, cret, pushed, popped, notQueue>>

NextQueue ==
    \/ \E x \in Items : Push(x)
    \/ PopCall
    \/ PopWake
    \/ PopTimeout
    \/ Tick

(***************************************************************************)
(* xcompgrab.c: the capture session. c is the XCompGrabCtx; env is the     *)
(* world outside it: which external resources and heap blocks are live,    *)
(* the releases performed so far in order, and the faults committed (an    *)
(* operation on something that is not live, a call through a null          *)
(* function pointer).                                                      *)
(***************************************************************************)
SliceIdx == 0 .. (NSlices - 1)

\* the heap block of slices[i].buf and the buffer object slices[i].pbo
BufName(i) == <<"buf0", "buf1", "buf2", "buf3", "buf4", "buf5", "buf6", "buf7">>[i + 1]
PboName(i) == <<"pbo0", "pbo1", "pbo2", "pbo3", "pbo4", "pbo5", "pbo6", "pbo7">>[i + 1]

Resources ==
    {"display", "redirect", "configs", "win_pixmap", "gl_pixmap", "gl_ctx",
     "gl_texmap", "pvt_slices", "glpbo_slices"}
        \cup {BufName(i) : i \in SliceIdx} \cup {PboName(i) : i \in SliceIdx}

\* the entry points pvt_init_gl_func looks up, in its order
GlFuncs ==
    <<"glXBindTexImageEXT", "glXReleaseTexImageEXT", "glGenBuffers",
      "glDeleteBuffers", "glBindBuffer", "glBufferData", "glMapBuffer",
      "glUnmapBuffer">>

\* how many of them the session of a buffer type needs
GlFuncsNeeded(type) == IF type = BUF_GLPBO THEN 8 ELSE 2

\* the frame rates av_parse_video_rate yields, as <<num, den>>
Rates == {<<10, 1>>, <<6, 1>>}

\* av_rescale_q(1, (AVRational){den, num}, AV_TIME_BASE_Q), rounding to nearest
FrameDuration(rate) == (rate[2] * AV_TIME_BASE + (rate[1] \div 2)) \div rate[1]

\* priv_data as libavformat hands it to read_header: zeroed, options set
CtxZero(type, rate) ==
    [xdisplay |-> 0, win_pixmap |-> 0, gl_ctx |-> 0, gl_pixmap |-> 0,
     gl_texmap |-> 0, framebuf_type |-> type, framerate |-> rate,
     glfn |-> {},
     time_frame |-> 0, frame_duration |-> 0,
     pvt_framebuf |-> [slices |-> 0, n_slices |-> 0,
                       used |-> [i \in SliceIdx |-> 0],
                       buf |-> [i \in SliceIdx |-> 0]],
     glpbo_framebuf |-> [slices |-> 0, n_slices |-> 0,
                         used |-> [i \in SliceIdx |-> 0],
                         pbo |-> [i \in SliceIdx |-> 0],
                         ptr |-> [i \in SliceIdx |-> 0]]]

EnvZero ==
    [heap |-> [r \in Resources |-> "none"], log |-> <<>>, faults |-> {}, mapped |-> {},
     xerror |-> FALSE]

\* the server reports an error for a request of the session (err), which
\* Xlib hands to the installed handler
Report(e, err) == IF err THEN [e EXCEPT !.xerror = TRUE] ELSE e

\* a resource is created, a block allocated
Acquire(e, r) == [e EXCEPT !.heap[r] = "live"]

\* a resource is destroyed, a block freed: a fault unless it is live
Free(e, r) ==
    [e EXCEPT !.heap[r] = "released",
              !.log = Append(@, r),
              !.faults = IF e.heap[r] = "live" THEN @
                         ELSE @ \cup {<<IF e.heap[r] = "released"
                                        THEN "released_twice"
                                        ELSE "released_unacquired", r>>}]

\* a resource is used, a block read: a fault unless it is live
Use(e, r) ==
    [e EXCEPT !.faults = IF e.heap[r] = "live" THEN @
                         ELSE @ \cup {<<"used_not_live", r>>}]

\* a call through the function pointer c->f: a fault if it was not looked up
Call(e, cc, f) ==
    [e EXCEPT !.faults = IF f \in cc.glfn THEN @ ELSE @ \cup {<<"null_call", f>>}]

\* the loop of pvt_cleanup_membuffer: av_free(buf->slices[i].buf), a no-op
\* on a null pointer
RECURSIVE FreeSliceBufs(_, _, _)
FreeSliceBufs(fb, e, i) ==
    IF i >= fb.n_slices THEN e
    ELSE FreeSliceBufs(fb, IF fb.buf[i] # 0 THEN Free(e, BufName(i)) ELSE e, i + 1)

\* pvt_cleanup_membuffer: guarded by buf->slices, which it does not reset
pvt_cleanup_membuffer(fb, e) ==
    IF fb.slices # 0
    THEN Free(FreeSliceBufs(fb, Use(e, "pvt_slices"), 0), "pvt_slices")
    ELSE e

\* pvt_cleanup_pbobuffer: guarded by buf->slices, which it does not reset
pvt_cleanup_pbobuffer(fb, e) ==
    IF fb.slices # 0 THEN Free(e, "glpbo_slices") ELSE e

\* the loop of read_close over the buffer objects: glDeleteBuffers on each
\* slice whose pbo is not 0
RECURSIVE DeletePbos(_, _, _)
DeletePbos(cc, e, i) ==
    IF i >= cc.glpbo_framebuf.n_slices THEN e
    ELSE DeletePbos(cc,
                    IF cc.glpbo_framebuf.pbo[i] # 0
                    THEN Free(Call(Use(e, "glpbo_slices"), cc, "glDeleteBuffers"), PboName(i))
                    ELSE Use(e, "glpbo_slices"),
                    i + 1)

\* case BUF_GLPBO of read_close
CloseGlpbo(cc, e) ==
    pvt_cleanup_pbobuffer(cc.glpbo_framebuf,
        IF cc.xdisplay # 0 /\ cc.gl_pixmap # 0 /\ cc.gl_ctx # 0
        THEN DeletePbos(cc, Call(Use(Use(e, "gl_pixmap"), "gl_ctx"), cc, "glBindBuffer"), 0)
        ELSE e)

\* xcompgrab_read_close: the context and the world after it
xcompgrab_read_close(cc, e) ==
    LET e1 == CASE cc.framebuf_type = BUF_INTERNAL -> pvt_cleanup_membuffer(cc.pvt_framebuf, e)
                [] cc.framebuf_type = BUF_GLPBO -> CloseGlpbo(cc, e)
                [] OTHER -> e
        tex == cc.gl_texmap # 0 /\ cc.xdisplay # 0 /\ cc.gl_pixmap # 0 /\ cc.gl_ctx # 0
        e2 == IF tex THEN Free(Use(Use(e1, "gl_pixmap"), "gl_ctx"), "gl_texmap") ELSE e1
        c2 == IF tex THEN [cc EXCEPT !.gl_texmap = 0] ELSE cc
        ctx == c2.gl_ctx # 0 /\ c2.xdisplay # 0
        e3 == IF ctx THEN Free(e2, "gl_ctx") ELSE e2
        c3 == IF ctx THEN [c2 EXCEPT !.gl_ctx = 0] ELSE c2
        pix == c3.win_pixmap # 0 /\ c3.xdisplay # 0
        e4 == IF pix THEN Free(e3, "win_pixmap") ELSE e3
        c4 == IF pix THEN [c3 EXCEPT !.win_pixmap = 0] ELSE c3
        dpy == c4.xdisplay # 0
        e5 == IF dpy THEN Free(e4, "display") ELSE e4
        c5 == IF dpy THEN [c4 EXCEPT !.xdisplay = 0] ELSE c4
    IN  [c |-> c5, e |-> e5]

\* lines 447-455: pvt_check_x_error, after its XSync has brought in every
\* error still on its way: -1 when the flag is set, 0 otherwise (the step
\* that calls it clears the flag)
pvt_check_x_error_mut(flag) == 0
pvt_check_x_error(flag) == IF flag = 1 THEN 0 - 1 ELSE 0

\* err_exit, lines 628-629: if(is_x_error) is_x_error = 0
reset_x_error_mut(flag) == flag
reset_x_error(flag) == 0

\* pvt_x_error_handler, called when the server reports an error
pvt_x_error_handler(flag, err) == IF err THEN 1 ELSE flag

\* before read_header: the context zeroed, nothing acquired
SessIdle ==
    /\ c = CtxZero(BUF_SYSTEM, <<10, 1>>)
    /\ env = EnvZero
    /\ opc = "start"
    /\ rv = "0"
    /\ configs = 0
    /\ is_x_error = 0
    /\ handler = "prev"
    /\ prev_x_error_handler = 0
    /\ xclose = 0

SessInit ==
    /\ \E type \in {BUF_SYSTEM, BUF_INTERNAL, BUF_GLPBO} : \E rate \in Rates :
          c = CtxZero(type, rate)
    /\ env = EnvZero
    /\ opc = "start"
    /\ rv = "0"
    /\ configs = 0
    /\ is_x_error = 0
    /\ handler = "prev"
    /\ prev_x_error_handler = 0
    /\ xclose = 0

\* goto err_exit with rv = code
GotoErrExit(code) ==
    /\ opc' = "err_exit"
    /\ rv' = code

\* lines 465-473: the members used for destruction are reset, XOpenDisplay,
\* XSetErrorHandler(pvt_x_error_handler)
OpenDisplay ==
    /\ opc = "start"
    /\ \E ok \in BOOLEAN :
          /\ c' = [c EXCEPT !.xdisplay = IF ok THEN 1 ELSE 0, !.win_pixmap = 0,
                            !.gl_ctx = 0, !.gl_texmap = 0]
          /\ IF ok
             THEN /\ env' = Acquire(env, "display")
                  /\ handler' = "pvt"
                  /\ prev_x_error_handler' = 1
                  /\ opc' = "comp"
                  /\ rv' = rv
             ELSE /\ opc' = "failed"
                  /\ rv' = "ENODEV"
                  /\ UNCHANGED <<env, handler, prev_x_error_handler>>
    /\ UNCHANGED <<configs, is_x_error, xclose, notSess>>

\* lines 476-478: pvt_check_comp_support. Its requests wait for a reply:
\* an error the server reports for one of them reaches the installed
\* handler during the call
CheckCompSupport ==
    /\ opc = "comp"
    /\ \E ok \in BOOLEAN :
          IF ok THEN opc' = "find" /\ rv' = rv ELSE GotoErrExit("ENOTSUP")
    /\ \E err \in BOOLEAN :
          /\ is_x_error' = pvt_x_error_handler(is_x_error, err)
          /\ env' = Report(env, err)
    /\ UNCHANGED <<c, configs, handler, prev_x_error_handler, xclose, notSess>>

\* lines 480-484: pvt_find_window. XFetchName on a window that has gone
\* raises an error, which the handler takes, and the search goes on
FindWindow ==
    /\ opc = "find"
    /\ \E ok \in BOOLEAN :
          IF ok THEN opc' = "redirect" /\ rv' = rv ELSE GotoErrExit("EINVAL")
    /\ \E err \in BOOLEAN :
          /\ is_x_error' = pvt_x_error_handler(is_x_error, err)
          /\ env' = Report(env, err)
    /\ UNCHANGED <<c, configs, handler, prev_x_error_handler, xclose, notSess>>

\* lines 485-489: XCompositeRedirectWindow, which the server may reject,
\* then pvt_check_x_error, which reads and clears is_x_error
RedirectWindow ==
    /\ opc = "redirect"
    /\ \E err \in BOOLEAN :
          IF pvt_check_x_error(pvt_x_error_handler(is_x_error, err)) # 0
          THEN GotoErrExit("EINVAL") /\ env' = Report(env, err)
          ELSE opc' = "attrs" /\ rv' = rv /\ env' = Acquire(Report(env, err), "redirect")
    /\ is_x_error' = 0
    /\ UNCHANGED <<c, configs, handler, prev_x_error_handler, xclose, notSess>>

\* lines 491-495: XGetWindowAttributes; it returns 0 when the server
\* reports an error for it, which the handler has then taken
GetWindowAttributes ==
    /\ opc = "attrs"
    /\ \E ok \in BOOLEAN :
          IF ok
          THEN opc' = "fbconfig" /\ rv' = rv /\ UNCHANGED <<is_x_error, env>>
          ELSE /\ GotoErrExit("ENOTSUP")
               /\ \E err \in BOOLEAN :
                     /\ is_x_error' = pvt_x_error_handler(is_x_error, err)
                     /\ env' = Report(env, err)
    /\ UNCHANGED <<c, configs, handler, prev_x_error_handler, xclose, notSess>>

\* lines 508-513: glXChooseFBConfig
ChooseFBConfig ==
    /\ opc = "fbconfig"
    /\ \E ok \in BOOLEAN :
          IF ok
          THEN /\ configs' = 1
               /\ env' = Acquire(env, "configs")
               /\ opc' = "match"
               /\ rv' = rv
          ELSE /\ GotoErrExit("ENOTSUP")
               /\ UNCHANGED <<configs, env>>
    /\ UNCHANGED <<c, is_x_error, handler, prev_x_error_handler, xclose, notSess>>

\* lines 514-531: the first configuration of the window's depth
MatchConfig ==
    /\ opc = "match"
    /\ \E ok \in BOOLEAN :
          IF ok THEN opc' = "win_pixmap" /\ rv' = rv ELSE GotoErrExit("ENOTSUP")
    /\ UNCHANGED <<c, env, configs, is_x_error, handler, prev_x_error_handler, xclose, notSess>>

\* lines 533-538: XCompositeNameWindowPixmap returns val; when it is not 0
\* pvt_check_x_error runs (the || short-circuits when it is 0)
NameWindowPixmap ==
    /\ opc = "win_pixmap"
    /\ \E val \in {0, 1} : \E err \in BOOLEAN :
          /\ c' = [c EXCEPT !.win_pixmap = val]
          /\ IF val = 0
             THEN GotoErrExit("ENOTSUP") /\ UNCHANGED <<env, is_x_error>>
             ELSE /\ is_x_error' = 0
                  /\ IF pvt_check_x_error(pvt_x_error_handler(is_x_error, err)) # 0
                     THEN GotoErrExit("ENOTSUP") /\ env' = Report(env, err)
                     ELSE opc' = "gl_pixmap" /\ rv' = rv /\ env' = Acquire(Report(env, err), "win_pixmap")
    /\ UNCHANGED <<configs, handler, prev_x_error_handler, xclose, notSess>>

\* lines 542-547: glXCreatePixmap, checked like the window pixmap
CreateGlPixmap ==
    /\ opc = "gl_pixmap"
    /\ \E val \in {0, 1} : \E err \in BOOLEAN :
          /\ c' = [c EXCEPT !.gl_pixmap = val]
          /\ IF val = 0
             THEN GotoErrExit("ENOTSUP") /\ UNCHANGED <<env, is_x_error>>
             ELSE /\ is_x_error' = 0
                  /\ IF pvt_check_x_error(pvt_x_error_handler(is_x_error, err)) # 0
                     THEN GotoErrExit("ENOTSUP") /\ env' = Report(env, err)
                     ELSE opc' = "gl_ctx" /\ rv' = rv /\ env' = Acquire(Report(env, err), "gl_pixmap")
    /\ UNCHANGED <<configs, handler, prev_x_error_handler, xclose, notSess>>

\* lines 548-555: glXCreateNewContext, then XFree(configs); configs = 0
CreateContext ==
    /\ opc = "gl_ctx"
    /\ \E ok \in BOOLEAN :
          IF ok
          THEN /\ c' = [c EXCEPT !.gl_ctx = 1]
               /\ env' = Free(Acquire(env, "gl_ctx"), "configs")
               /\ configs' = 0
               /\ opc' = "make_current"
               /\ rv' = rv
          ELSE /\ GotoErrExit("ENOTSUP")
               /\ UNCHANGED <<c, env, configs>>
    /\ UNCHANGED <<is_x_error, handler, prev_x_error_handler, xclose, notSess>>

\* lines 556-565: glXMakeCurrent and pvt_check_x_error, then the previous
\* error handler is put back
MakeCurrent ==
    /\ opc = "make_current"
    /\ \E err \in BOOLEAN :
          /\ IF pvt_check_x_error(pvt_x_error_handler(is_x_error, err)) # 0
             THEN GotoErrExit("ENOTSUP") /\ UNCHANGED <<handler, prev_x_error_handler>>
             ELSE /\ opc' = "gen_tex"
                  /\ rv' = rv
                  /\ handler' = "prev"
                  /\ prev_x_error_handler' = 0
          /\ env' = Use(Use(Report(env, err), "gl_pixmap"), "gl_ctx")
    /\ is_x_error' = 0
    /\ UNCHANGED <<c, configs, xclose, notSess>>

\* lines 567-572: glGenTextures; a GL error leaves gl_texmap 0
GenTextures ==
    /\ opc = "gen_tex"
    /\ \E ok \in BOOLEAN :
          IF ok
          THEN /\ c' = [c EXCEPT !.gl_texmap = 1]
               /\ env' = Acquire(env, "gl_texmap")
               /\ opc' = "tex_image"
               /\ rv' = rv
          ELSE /\ GotoErrExit("EINVAL")
               /\ UNCHANGED <<c, env>>
    /\ UNCHANGED <<configs, is_x_error, handler, prev_x_error_handler, xclose, notSess>>

\* lines 573-580: glBindTexture, glTexImage2D
TexImage ==
    /\ opc = "tex_image"
    /\ \E ok \in BOOLEAN :
          IF ok THEN opc' = "gl_func" /\ rv' = rv ELSE GotoErrExit("EINVAL")
    /\ UNCHANGED <<c, env, configs, is_x_error, handler, prev_x_error_handler, xclose, notSess>>

\* lines 582-584: pvt_init_gl_func resolves the first k entry points and
\* fails on the next one
InitGlFunc ==
    /\ opc = "gl_func"
    /\ \E k \in 0 .. GlFuncsNeeded(c.framebuf_type) :
          /\ c' = [c EXCEPT !.glfn = {GlFuncs[j] : j \in 1 .. k}]
          /\ IF k = GlFuncsNeeded(c.framebuf_type)
             THEN opc' = "buffers" /\ rv' = rv
             ELSE GotoErrExit("ENOTSUP")
    /\ UNCHANGED <<env, configs, is_x_error, handler, prev_x_error_handler, xclose, notSess>>

\* blocks BufName(i) .. BufName(n - 1) are allocated
RECURSIVE AllocBufs(_, _, _)
AllocBufs(e, i, n) == IF i >= n THEN e ELSE AllocBufs(Acquire(e, BufName(i)), i + 1, n)

\* blocks BufName(0) .. BufName(n - 1) are freed
RECURSIVE FreeBufsBelow(_, _, _)
FreeBufsBelow(e, j, n) == IF j >= n THEN e ELSE FreeBufsBelow(Free(e, BufName(j)), j + 1, n)

\* pvt_init_membuffer(s, NSlices, n_bytes, out). The outcome is -1 (the
\* slice array cannot be allocated), the index of the slice whose buffer
\* cannot be allocated (then the buffers below it and the array are freed,
\* and out->slices keeps the address of the freed array), or NSlices
\* (every allocation succeeds).
pvt_init_membuffer(fb, e, out) ==
    IF out = -1
    THEN [fb |-> [fb EXCEPT !.slices = 0], e |-> e, rv |-> "ENOMEM"]
    ELSE LET n == out
             fb1 == [slices |-> 1, n_slices |-> NSlices,
                     used |-> [i \in SliceIdx |-> 0],
                     buf |-> [i \in SliceIdx |-> IF i < n THEN 1 ELSE 0]]
             e1 == AllocBufs(Acquire(e, "pvt_slices"), 0, n)
         IN  IF out = NSlices
             THEN [fb |-> fb1, e |-> e1, rv |-> "0"]
             ELSE [fb |-> fb1, e |-> Free(FreeBufsBelow(e1, 0, n), "pvt_slices"),
                   rv |-> "ENOMEM"]

\* buffer objects 0 .. n - 1 are generated
RECURSIVE GenPbos(_, _, _)
GenPbos(e, i, n) == IF i >= n THEN e ELSE GenPbos(Acquire(e, PboName(i)), i + 1, n)

\* pvt_init_pbobuffer(s, NSlices, out) and the loop of lines 599-612. The
\* outcome is -1 (no memory for the array) or the number k of GL calls (glGenBuffers and
\* glBufferData of slice 0, of slice 1, ...) that pass their error check
\* before one fails; k = 2 * NSlices is success. A failed glGenBuffers
\* leaves the slice's pbo 0.
InitPbo(cc, e, out) ==
    IF out = -1
    THEN [fb |-> [cc.glpbo_framebuf EXCEPT !.slices = 0], e |-> e, rv |-> "ENOMEM"]
    ELSE LET n == (out + 1) \div 2
             e0 == Call(Call(Call(e, cc, "glGenBuffers"), cc, "glBindBuffer"), cc, "glBufferData")
         IN  [fb |-> [slices |-> 1, n_slices |-> NSlices,
                      used |-> [i \in SliceIdx |-> 0],
                      pbo |-> [i \in SliceIdx |-> IF i < n THEN 1 ELSE 0],
                      ptr |-> [i \in SliceIdx |-> 0]],
              e |-> GenPbos(Acquire(e0, "glpbo_slices"), 0, n),
              rv |-> IF out = 2 * NSlices THEN "0" ELSE "EINVAL"]

\* lines 586-618: the buffers of the session's framebuf_type
InitBuffers ==
    /\ opc = "buffers"
    /\ CASE c.framebuf_type = BUF_INTERNAL ->
              \E out \in -1 .. NSlices :
                 LET r == pvt_init_membuffer(c.pvt_framebuf, env, out)
                 IN  /\ c' = [c EXCEPT !.pvt_framebuf = r.fb]
                     /\ env' = r.e
                     /\ IF r.rv = "0" THEN opc' = "stream" /\ rv' = rv
                        ELSE GotoErrExit(r.rv)
         [] c.framebuf_type = BUF_GLPBO ->
              \E out \in -1 .. 2 * NSlices :
                 LET r == InitPbo(c, env, out)
                 IN  /\ c' = [c EXCEPT !.glpbo_framebuf = r.fb]
                     /\ env' = r.e
                     /\ IF r.rv = "0" THEN opc' = "stream" /\ rv' = rv
                        ELSE GotoErrExit(r.rv)
         [] OTHER ->
              /\ opc' = "stream"
              /\ UNCHANGED <<c, env, rv>>
    /\ UNCHANGED <<configs, is_x_error, handler, prev_x_error_handler, xclose, notSess>>

\* lines 620-623 and pvt_init_stream: the frame duration of the rate, the
\* pacing anchor at the current time
InitStream ==
    /\ opc = "stream"
    /\ \E ok \in BOOLEAN :
          IF ok
          THEN /\ c' = [c EXCEPT !.frame_duration = FrameDuration(c.framerate),
                                 !.time_frame = now]
               /\ opc' = "ready"
               /\ rv' = "0"
          ELSE /\ GotoErrExit("ENOMEM")
               /\ c' = c
    /\ UNCHANGED <<env, configs, is_x_error, handler, prev_x_error_handler, xclose, notSess>>

\* err_exit, lines 625-633: XFree(configs), is_x_error = 0, the previous
\* error handler is put back, xcompgrab_read_close, return rv
ErrExit ==
    /\ opc = "err_exit"
    /\ LET e0 == IF configs # 0 THEN Free(env, "configs") ELSE env
           r == xcompgrab_read_close(c, e0)
       IN  c' = r.c /\ env' = r.e
    /\ configs' = configs
    /\ is_x_error' = reset_x_error(is_x_error)
    /\ handler' = IF prev_x_error_handler # 0 THEN "prev" ELSE handler
    /\ opc' = "failed"
    /\ UNCHANGED <<rv, prev_x_error_handler, xclose, notSess>>

\* read_close called from outside: after an open that succeeded, after one
\* that failed, or after an earlier close
CloseCall ==
    /\ opc \in {"ready", "failed", "closed"}
    /\ xclose < MaxClose
    /\ LET r == xcompgrab_read_close(c, env)
       IN  c' = r.c /\ env' = r.e
    /\ xclose' = xclose + 1
    /\ opc' = IF opc = "ready" THEN "closed" ELSE opc
    /\ UNCHANGED <<rv, configs, is_x_error, handler, prev_x_error_handler, notSess>>

\* the steps of xcompgrab_read_header
NextOpen ==
    \/ OpenDisplay
    \/ CheckCompSupport
    \/ FindWindow
    \/ RedirectWindow
    \/ GetWindowAttributes
    \/ ChooseFBConfig
    \/ MatchConfig
    \/ NameWindowPixmap
    \/ CreateGlPixmap
    \/ CreateContext
    \/ MakeCurrent
    \/ GenTextures
    \/ TexImage
    \/ InitGlFunc
    \/ InitBuffers
    \/ InitStream
    \/ ErrExit

NextSess ==
    \/ NextOpen
    \/ CloseCall

(***************************************************************************)
(* xcompgrab.c: xcompgrab_read_packet, one call per capture tick, and the  *)
(* release of a delivered packet's buffer by its consumer. A call is one   *)
(* step: the only state it shares with the consumer are the used flags,    *)
(* which the consumer only ever resets.                                    *)
(***************************************************************************)
\* no call of read_packet yet
RpNone ==
    [ret |-> "none", slice |-> -1, full |-> FALSE, anchor |-> 0, wake |-> 0, warn |-> FALSE,
     hasbuf |-> FALSE, pts |-> -1, prev |-> -1]

CapIdle ==
    /\ now = 0
    /\ clockmode = "exact"
    /\ ticks = 0
    /\ units = 0
    /\ outst = {}
    /\ heapout = 0
    /\ rp = RpNone
    /\ warns = 0
    /\ nfail = 0
    /\ tex_bound = FALSE

CapInit ==
    /\ now = 0
    /\ clockmode \in {"exact", "real"}
    /\ ticks = 0
    /\ units = 0
    /\ outst = {}
    /\ heapout = 0
    /\ rp = RpNone
    /\ warns = 0
    /\ nfail = 0
    /\ tex_bound = FALSE

\* the scan of pvt_alloc_membuffer and pvt_alloc_pbobuffer: the first slice
\* whose used flag the compare-and-swap takes from 0 to 1, -1 for none
FirstFree(usedf, n) ==
    IF \E i \in 0 .. (n - 1) : usedf[i] = 0
    THEN CHOOSE i \in 0 .. (n - 1) : usedf[i] = 0 /\ \A j \in 0 .. (i - 1) : usedf[j] # 0
    ELSE -1

\* (a faulty scan that gives up at the first claimed slice)
pvt_alloc_membuffer_mut(fb) == IF fb.used[0] = 0 THEN 0 ELSE -1
pvt_alloc_membuffer(fb) == FirstFree(fb.used, fb.n_slices)

\* (a faulty scan that takes the first slice without testing its flag)
pvt_alloc_pbobuffer_mut(fb) == 0
pvt_alloc_pbobuffer(fb) == FirstFree(fb.used, fb.n_slices)

\* the clock value at which the run stops capturing
Horizon == IF clockmode = "exact" THEN MaxClock ELSE RealClock

\* how long av_usleep(delay) may sleep beyond delay
Oversleep == IF clockmode = "exact" THEN {0} ELSE {0, OverUs}

\* lines 644-651: the anchor advanced by one frame duration, and the time at
\* which the wait loop ends: at once when the clock has reached the anchor,
\* else when av_usleep(delay) returns
\* (a faulty anchor that does not advance)
Anchor_mut(cc) == cc.time_frame
Anchor(cc) == cc.time_frame + cc.frame_duration
\* (a faulty wait that returns at once)
WakeTime_mut(cc, t, over) == t
WakeTime(cc, t, over) == IF t >= Anchor(cc) THEN t ELSE Anchor(cc) + over

\* the allocation failures a call may meet: of pvt_alloc ("alloc"), of
\* av_buffer_create ("wrap"), of glMapBuffer ("map")
FailKinds(type) ==
    IF nfail >= MaxFail THEN {"none"}
    ELSE CASE type = BUF_SYSTEM -> {"none", "alloc", "wrap"}
           [] type = BUF_INTERNAL -> {"none", "wrap"}
           [] OTHER -> {"none", "map", "wrap"}

\* lines 659-671 and 706-709 for BUF_SYSTEM: [c, e, ret, slice, hasbuf, warn, bound]
ReadSystem(cc, e, fail) ==
    IF fail \in {"alloc", "wrap"}
    THEN [c |-> cc, e |-> e, ret |-> "ENOMEM", slice |-> -1, hasbuf |-> FALSE,
          warn |-> FALSE, bound |-> FALSE]
    ELSE [c |-> cc, e |-> Call(Call(e, cc, "glXBindTexImageEXT"), cc, "glXReleaseTexImageEXT"),
          ret |-> "0", slice |-> -1, hasbuf |-> TRUE, warn |-> FALSE, bound |-> FALSE]

\* lines 659-671 and 706-709 for BUF_INTERNAL
ReadInternal(cc, e, fail) ==
    LET i == pvt_alloc_membuffer(cc.pvt_framebuf)
        e1 == Use(e, "pvt_slices")
    IN  IF i = -1
        THEN [c |-> cc, e |-> e1, ret |-> "ENOMEM", slice |-> -1, hasbuf |-> FALSE,
              warn |-> TRUE, bound |-> FALSE]
        ELSE LET c1 == [cc EXCEPT !.pvt_framebuf.used[i] = 1]
             IN  IF fail = "wrap"
                 THEN [c |-> c1, e |-> e1, ret |-> "ENOMEM", slice |-> i, hasbuf |-> FALSE,
                       warn |-> FALSE, bound |-> FALSE]
                 ELSE [c |-> c1,
                       e |-> Call(Call(e1, cc, "glXBindTexImageEXT"), cc, "glXReleaseTexImageEXT"),
                       ret |-> "0", slice |-> i, hasbuf |-> TRUE, warn |-> FALSE,
                       bound |-> FALSE]

\* glUnmapBuffer, glGetTexImage into the buffer object, glMapBuffer on slice i
\* (a faulty unmap that leaves the buffer mapped)
Unmap_mut(e, i) == e
Unmap(e, i) == [e EXCEPT !.mapped = @ \ {i}]
Transfer(e, i) ==
    [e EXCEPT !.faults = IF i \in e.mapped THEN @ \cup {<<"transfer_while_mapped", PboName(i)>>} ELSE @]
Map(e, i) ==
    [e EXCEPT !.mapped = @ \cup {i},
              !.faults = IF i \in e.mapped THEN @ \cup {<<"mapped_twice", PboName(i)>>} ELSE @]

\* lines 677-708 for BUF_GLPBO
ReadGlpbo(cc, e, fail) ==
    LET i == pvt_alloc_pbobuffer(cc.glpbo_framebuf)
        e1 == Use(Call(e, cc, "glXBindTexImageEXT"), "glpbo_slices")
    IN  IF i = -1
        THEN [c |-> cc, e |-> e1, ret |-> "ENOMEM", slice |-> -1, hasbuf |-> FALSE,
              warn |-> TRUE, bound |-> TRUE]
        ELSE LET c1 == [cc EXCEPT !.glpbo_framebuf.used[i] = 1]
                 e2 == Call(e1, cc, "glBindBuffer")
                 had == cc.glpbo_framebuf.ptr[i] # 0
                 e3 == IF had THEN Unmap(Call(e2, cc, "glUnmapBuffer"), i) ELSE e2
                 e4 == Call(Transfer(e3, i), cc, "glMapBuffer")
             IN  IF fail = "map"
                 THEN [c |-> [c1 EXCEPT !.glpbo_framebuf.ptr[i] = 0], e |-> e4,
                       ret |-> "ENOMEM", slice |-> i, hasbuf |-> FALSE, warn |-> FALSE,
                       bound |-> TRUE]
                 ELSE [c |-> [c1 EXCEPT !.glpbo_framebuf.ptr[i] = 1],
                       e |-> Call(Map(e4, i), cc, "glXReleaseTexImageEXT"),
                       ret |-> "0", slice |-> i, hasbuf |-> (fail # "wrap"),
                       warn |-> FALSE, bound |-> FALSE]

\* every slice of the strategy in use is claimed
AllClaimed(cc) ==
    \A i \in SliceIdx :
        (IF cc.framebuf_type = BUF_INTERNAL THEN cc.pvt_framebuf.used
         ELSE cc.glpbo_framebuf.used)[i] # 0

\* xcompgrab_read_packet, lines 636-710
read_packet ==
    /\ opc = "ready"
    /\ Anchor(c) <= Horizon
    /\ (c.framebuf_type # BUF_SYSTEM /\ AllClaimed(c)) => warns < MaxWarn
    /\ \E over \in Oversleep : \E fail \in FailKinds(c.framebuf_type) :
          LET wake == WakeTime(c, now, over)
              c0 == [c EXCEPT !.time_frame = Anchor(c)]
              r == CASE c.framebuf_type = BUF_INTERNAL -> ReadInternal(c0, env, fail)
                     [] c.framebuf_type = BUF_GLPBO -> ReadGlpbo(c0, env, fail)
                     [] OTHER -> ReadSystem(c0, env, fail)
              full == c.framebuf_type # BUF_SYSTEM /\ AllClaimed(c)
          IN  /\ now' = wake
              /\ c' = r.c
              /\ env' = r.e
              /\ ticks' = ticks + 1
              /\ rp' = [ret |-> r.ret, slice |-> r.slice, full |-> full,
                        anchor |-> Anchor(c), wake |-> wake, warn |-> r.warn,
                        hasbuf |-> r.hasbuf,
                        pts |-> IF r.ret = "0" THEN wake ELSE rp.pts,
                        prev |-> IF r.ret = "0" THEN rp.pts ELSE rp.prev]
              /\ warns' = IF r.warn THEN warns + 1 ELSE warns
              /\ nfail' = IF fail = "none" THEN nfail ELSE nfail + 1
              /\ tex_bound' = r.bound
              /\ IF r.ret = "0"
                 THEN /\ units' = units + 1
                      /\ IF r.slice = -1
                         THEN heapout' = heapout + 1 /\ outst' = outst
                         ELSE /\ outst' = outst \cup {[slice |-> r.slice, hasbuf |-> r.hasbuf]}
                              /\ heapout' = heapout
                 ELSE UNCHANGED <<units, outst, heapout>>
    /\ UNCHANGED <<opc, rv, configs, is_x_error, handler, prev_x_error_handler, xclose,
                   clockmode>>

\* a call of read_packet by a caller of which nothing else is modelled
ReadPacket == read_packet /\ UNCHANGED notSessCap

\* pvt_free_membuffer: the slice whose buf is data has its used flag taken
\* from 1 to 0; a flag that is not 1 is left as it is, silently
pvt_free_membuffer(fb, i) == [fb EXCEPT !.used[i] = 0]

\* pvt_free_pbobuffer: when data is the slice's ptr, its used flag is taken
\* from 1 to 0; the buffer object stays mapped
\* (a faulty callback that leaves the flag set)
pvt_free_pbobuffer_mut(fb, i) == fb
pvt_free_pbobuffer(fb, i) == IF fb.ptr[i] # 0 THEN [fb EXCEPT !.used[i] = 0] ELSE fb

\* the last reference to the buffer of a delivered packet u is dropped and
\* its free callback runs
buffer_free(u) ==
    /\ u \in outst
    /\ outst' = outst \ {u}
    /\ CASE u.hasbuf /\ c.framebuf_type = BUF_INTERNAL ->
               /\ c' = [c EXCEPT !.pvt_framebuf = pvt_free_membuffer(@, u.slice)]
               /\ env' = Use(env, "pvt_slices")
          [] u.hasbuf /\ c.framebuf_type = BUF_GLPBO ->
               /\ c' = [c EXCEPT !.glpbo_framebuf = pvt_free_pbobuffer(@, u.slice)]
               /\ env' = Use(env, "glpbo_slices")
          [] OTHER -> UNCHANGED <<c, env>>

\* a consumer of which nothing else is modelled drops its last reference to u
PktUnref(u) ==
    /\ buffer_free(u)
    /\ UNCHANGED <<opc, rv, configs, is_x_error, handler, prev_x_error_handler, xclose,
                   now, clockmode, ticks, units, heapout, rp, warns, nfail, tex_bound,
                   notSessCap>>

\* the consumer drops its last reference to a delivered heap packet: pvt_free
HeapUnref ==
    /\ heapout > 0
    /\ heapout' = heapout - 1
    /\ UNCHANGED <<sessVars, now, clockmode, ticks, units, outst, rp, warns, nfail,
                   tex_bound, notSessCap>>

\* the caller of read_packet spends WorkUs between two calls
Delay ==
    /\ clockmode = "real"
    /\ opc = "ready"
    /\ now + WorkUs <= Horizon
    /\ now' = now + WorkUs
    /\ UNCHANGED <<sessVars, clockmode, ticks, units, outst, heapout, rp, warns, nfail,
                   tex_bound, notSessCap>>

NextCap ==
    \/ ReadPacket
    \/ \E u \in outst : PktUnref(u)
    \/ HeapUnref
    \/ Delay

(***************************************************************************)
(* main.cpp, writer.cpp: the capture loop of main and the writer thread,   *)
(* sharing frame_bufs (used), c_deq (d_) and the run flag. av_read_frame   *)
(* hands the loop what the read_packet of the input device returns.        *)
(***************************************************************************)
\* no packet, no frame
NoBuf == [unit |-> 0, slice |-> -1, hasbuf |-> FALSE]

\* no pipeline has been set up
PipeIdle ==
    /\ ppc = "idle"
    /\ wpc = "idle"
    /\ run = TRUE
    /\ pkt = NoBuf
    /\ cur_fh = -1
    /\ w_fh = -1
    /\ frames = <<>>
    /\ cur_frame = 0
    /\ dec = FALSE
    /\ enc = <<>>
    /\ encdelay = 0
    /\ encgroup = 1
    /\ wcopy = "writer"
    /\ iter = 1
    /\ written = <<>>
    /\ written_frames = 0
    /\ captured = <<>>
    /\ submitted = <<>>

\* main.cpp lines 173-180, writer.cpp lines 94-95: cur_frame = 0,
\* frame_bufs(n), run(true), written_frames = 0, iter = 1
PipeInit ==
    /\ ppc = "open"
    /\ wpc = "idle"
    /\ run = TRUE
    /\ pkt = NoBuf
    /\ cur_fh = -1
    /\ w_fh = -1
    /\ frames = [i \in 0 .. (PoolSize - 1) |-> NoBuf]
    /\ cur_frame = 0
    /\ dec = FALSE
    /\ enc = <<>>
    /\ encdelay \in 0 .. MaxDelay
    /\ encgroup \in 1 .. MaxGroup
    /\ encgroup > 1 => encdelay = 0
    /\ wcopy \in {"writer", "main"}
    /\ iter = 1
    /\ written = <<>>
    /\ written_frames = 0
    /\ captured = <<>>
    /\ submitted = <<>>

\* frame_buffers(n) of the pipeline
PipePoolInit ==
    /\ n_ = PoolSize
    /\ used = [i \in 0 .. (PoolSize - 1) |-> FALSE]
    /\ gpc = [t \in Threads |-> "idle"]
    /\ gi = [t \in Threads |-> 0]
    /\ held = [t \in Threads |-> {}]
    /\ gret = [t \in Threads |-> "none"]

\* frame_buffers::get_one: the first slot whose try_lock succeeds, -1 for none
\* (a faulty scan that hands out the lowest slot whatever its flag)
get_one_mut == CHOOSE i \in Slots : \A j \in Slots : i <= j
get_one ==
    IF \E i \in Slots : try_lock(i)
    THEN CHOOSE i \in Slots : try_lock(i) /\ \A j \in 0 .. (i - 1) : ~try_lock(j)
    ELSE -1

\* the buffer b loses a reference; it is freed when neither the packet of
\* the capture loop nor a frame refers to it any more
Unref(b, others) ==
    IF b.unit = 0 \/ others
    THEN UNCHANGED <<c, env, outst, heapout>>
    ELSE IF b.slice = -1
         THEN heapout' = heapout - 1 /\ UNCHANGED <<c, env, outst>>
         ELSE buffer_free([slice |-> b.slice, hasbuf |-> b.hasbuf]) /\ heapout' = heapout

\* what the capture session keeps while a buffer loses a reference
capRest == <<opc, rv, configs, is_x_error, handler, prev_x_error_handler, xclose,
             now, clockmode, ticks, units, rp, warns, nfail, tex_bound>>

\* the pool and queue variables the pipeline does not use
poolRest == <<n_, gpc, gi, held, gret>>
queueRest == <<qnow, cpc, cdeadline, cstart, cend, cret>>

\* main.cpp lines 286-297: the input is open, the writer thread is started
StartWriter ==
    /\ ppc = "open"
    /\ opc = "ready"
    /\ ppc' = "read"
    /\ wpc' = "pop"
    /\ UNCHANGED <<run, pkt, cur_fh, w_fh, frames, cur_frame, dec, enc, encdelay, encgroup, wcopy,
                   iter, written, written_frames, captured, submitted>>
    /\ UNCHANGED <<errVars, wrVars, poolVars, queueVars, sessVars, capVars>>

\* line 299: av_read_frame; line 301: avcodec_send_packet. A negative
\* return leaves the loop
ReadFrame ==
    /\ ppc = "read"
    /\ read_packet
    /\ IF rp'.ret = "0"
       THEN /\ pkt' = [unit |-> units', slice |-> rp'.slice, hasbuf |-> rp'.hasbuf]
            /\ dec' = TRUE
            /\ ppc' = "get"
       ELSE /\ pkt' = pkt
            /\ dec' = dec
            /\ ppc' = "stop"
    /\ UNCHANGED <<wpc, run, cur_fh, w_fh, frames, cur_frame, enc, encdelay, encgroup, wcopy,
                   iter, written, written_frames, captured, submitted>>
    /\ UNCHANGED <<errVars, wrVars, poolVars, queueVars>>

\* lines 304-310: get_one, again after a yield while it returns none
GetFrameHolder ==
    /\ ppc = "get"
    /\ get_one # -1
    /\ cur_fh' = get_one
    /\ used' = [used EXCEPT ![get_one] = TRUE]
    /\ ppc' = "recv"
    /\ UNCHANGED <<wpc, run, pkt, w_fh, frames, cur_frame, dec, enc, encdelay, encgroup, wcopy,
                   iter, written, written_frames, captured, submitted>>
    /\ UNCHANGED <<errVars, wrVars, poolRest, queueVars, sessVars, capVars>>

\* lines 312-318: avcodec_receive_frame returns 0: the frame refers to the
\* packet's buffer, cur_frame++, c_deq.push(cur_fh), and the loop goes round
ReceiveFrame ==
    /\ ppc = "recv"
    /\ dec
    /\ dec' = FALSE
    /\ frames' = [frames EXCEPT ![cur_fh] = pkt]
    /\ cur_frame' = cur_frame + 1
    /\ d_' = push_back(d_, cur_fh)
    /\ pushed' = Append(pushed, cur_fh)
    /\ captured' = Append(captured, pkt.unit)
    /\ cur_fh' = -1
    /\ ppc' = "get"
    /\ UNCHANGED <<wpc, run, pkt, w_fh, enc, encdelay, encgroup, wcopy, iter, written,
                   written_frames, submitted>>
    /\ UNCHANGED <<errVars, wrVars, poolVars, queueRest, popped, sessVars, capVars>>

\* lines 319-322: avcodec_receive_frame returns EAGAIN: cur_fh->release(),
\* break
ReceiveAgain ==
    /\ ppc = "recv"
    /\ ~dec
    /\ IF release_throws(cur_fh)
       THEN ppc' = "threw" /\ UNCHANGED <<used, cur_fh>>
       ELSE /\ used' = release(used, cur_fh)
            /\ cur_fh' = -1
            /\ ppc' = "unref"
    /\ UNCHANGED <<wpc, run, pkt, w_fh, frames, cur_frame, dec, enc, encdelay, encgroup, wcopy,
                   iter, written, written_frames, captured, submitted>>
    /\ UNCHANGED <<errVars, wrVars, poolRest, queueVars, sessVars, capVars>>

\* lines 326-328: av_packet_unref(&packet); if(cur_frame >= MAX_FRAMES) break
PacketUnref ==
    /\ ppc = "unref"
    /\ Unref(pkt, \E i \in Slots : frames[i].unit = pkt.unit)
    /\ pkt' = NoBuf
    /\ ppc' = IF cur_frame >= MAX_FRAMES THEN "stop" ELSE "read"
    /\ UNCHANGED <<wpc, run, cur_fh, w_fh, frames, cur_frame, dec, enc, encdelay, encgroup, wcopy,
                   iter, written, written_frames, captured, submitted>>
    /\ UNCHANGED <<errVars, wrVars, poolVars, queueVars, capRest>>

\* line 331: run = false
StopRun ==
    /\ ppc = "stop"
    /\ run' = FALSE
    /\ ppc' = "join"
    /\ UNCHANGED <<wpc, pkt, cur_fh, w_fh, frames, cur_frame, dec, enc, encdelay, encgroup, wcopy,
                   iter, written, written_frames, captured, submitted>>
    /\ UNCHANGED <<errVars, wrVars, poolVars, queueVars, sessVars, capVars>>

\* line 332: f_writer.join()
Join ==
    /\ ppc = "join"
    /\ wpc = "done"
    /\ ppc' = "end"
    /\ UNCHANGED <<wpc, run, pkt, cur_fh, w_fh, frames, cur_frame, dec, enc, encdelay, encgroup,
                   wcopy, iter, written, written_frames, captured, submitted>>
    /\ UNCHANGED <<errVars, wrVars, poolVars, queueVars, sessVars, capVars>>

\* the index of the last frame of the group of the j-th frame sent
GroupEnd(j) == ((j + encgroup - 1) \div encgroup) * encgroup

\* avcodec_receive_packet: the encoder hands out the oldest frame it holds
\* once it holds more than it buffers and the group of that frame is
\* complete (written_frames packets were emitted before, so the oldest
\* frame held is the next one sent), or any frame it holds once it has
\* been sent the end of the stream
encoder_ready(e, flushing) ==
    IF flushing THEN e # <<>>
    ELSE Len(e) > encdelay /\ GroupEnd(written_frames + 1) <= written_frames + Len(e)

\* writer.cpp lines 98-103: fq_.pop(fh) returns an element
WriterPop ==
    /\ wpc = "pop"
    /\ NotEmpty
    /\ w_fh' = begin(d_)
    /\ d_' = pop_front(d_)
    /\ popped' = Append(popped, begin(d_))
    /\ wpc' = "encode"
    /\ UNCHANGED <<ppc, run, pkt, cur_fh, frames, cur_frame, dec, enc, encdelay, encgroup, wcopy,
                   iter, written, written_frames, captured, submitted>>
    /\ UNCHANGED <<errVars, wrVars, poolVars, queueRest, pushed, sessVars, capVars>>

\* lines 98-99: fq_.pop(fh) times out on an empty queue and returns false
WriterPopTimeout ==
    /\ wpc = "pop"
    /\ ~NotEmpty
    /\ wpc' = "timedout"
    /\ UNCHANGED <<ppc, run, pkt, cur_fh, w_fh, frames, cur_frame, dec, enc, encdelay, encgroup,
                   wcopy, iter, written, written_frames, captured, submitted>>
    /\ UNCHANGED <<errVars, wrVars, poolVars, queueVars, sessVars, capVars>>

\* lines 99-101: pop has returned false and released the mutex; run_ is
\* read now: if(!run_) break; continue
WriterCheckRun ==
    /\ wpc = "timedout"
    /\ wpc' = IF ~run THEN "flush" ELSE "pop"
    /\ UNCHANGED <<ppc, run, pkt, cur_fh, w_fh, frames, cur_frame, dec, enc, encdelay, encgroup,
                   wcopy, iter, written, written_frames, captured, submitted>>
    /\ UNCHANGED <<errVars, wrVars, poolVars, queueVars, sessVars, capVars>>

\* lines 105-121: sws_scale, oframe->pts = iter++, avcodec_send_frame, one
\* avcodec_receive_packet; a packet received is written and counted
Encode ==
    /\ wpc = "encode"
    /\ LET sent == Append(enc, frames[w_fh].unit)
       IN  /\ submitted' = Append(submitted, <<frames[w_fh].unit, iter>>)
           /\ iter' = iter + 1
           /\ IF encoder_ready(sent, FALSE)
              THEN /\ written' = Append(written, Head(sent))
                   /\ written_frames' = written_frames + 1
                   /\ enc' = Tail(sent)
              ELSE /\ enc' = sent
                   /\ UNCHANGED <<written, written_frames>>
    /\ wpc' = "unref"
    /\ UNCHANGED <<ppc, run, pkt, cur_fh, w_fh, frames, cur_frame, dec, encdelay, encgroup, wcopy,
                   captured>>
    /\ UNCHANGED <<errVars, wrVars, poolVars, queueVars, sessVars, capVars>>

\* lines 109 and 123: av_frame_unref(fh->frame.get())
FrameUnref ==
    /\ wpc = "unref"
    /\ Unref(frames[w_fh], pkt.unit = frames[w_fh].unit)
    /\ frames' = [frames EXCEPT ![w_fh] = NoBuf]
    /\ wpc' = "release"
    /\ UNCHANGED <<ppc, run, pkt, cur_fh, w_fh, cur_frame, dec, enc, encdelay, encgroup, wcopy,
                   iter, written, written_frames, captured, submitted>>
    /\ UNCHANGED <<errVars, wrVars, poolVars, queueVars, capRest>>

\* lines 110 and 124: fh->release()
HolderRelease ==
    /\ wpc = "release"
    /\ IF release_throws(w_fh)
       THEN wpc' = "threw" /\ UNCHANGED <<used, w_fh>>
       ELSE /\ used' = release(used, w_fh)
            /\ w_fh' = -1
            /\ wpc' = "pop"
    /\ UNCHANGED <<ppc, run, pkt, cur_fh, frames, cur_frame, dec, enc, encdelay, encgroup, wcopy,
                   iter, written, written_frames, captured, submitted>>
    /\ UNCHANGED <<errVars, wrVars, poolRest, queueVars, sessVars, capVars>>

\* writer.cpp lines 127-134, main.cpp lines 277-282: avcodec_send_frame(0),
\* one avcodec_receive_packet whose result is not looked at, av_write_frame,
\* av_write_trailer; in writer.cpp only if(written_frames)
Flush ==
    /\ wpc = "flush"
    /\ IF wcopy = "main" \/ written_frames # 0
       THEN IF encoder_ready(enc, TRUE)
            THEN written' = Append(written, Head(enc)) /\ enc' = Tail(enc)
            ELSE written' = Append(written, 0) /\ enc' = enc
       ELSE UNCHANGED <<written, enc>>
    /\ wpc' = "done"
    /\ UNCHANGED <<ppc, run, pkt, cur_fh, w_fh, frames, cur_frame, dec, encdelay, encgroup, wcopy,
                   iter, written_frames, captured, submitted>>
    /\ UNCHANGED <<errVars, wrVars, poolVars, queueVars, sessVars, capVars>>

\* a fault in the writer thread. averror throws (avcodec_send_frame,
\* avcodec_receive_packet or av_write_frame of the loop returns an error,
\* writer.cpp lines 106, 112, 118; avcodec_send_frame, av_write_frame or
\* av_write_trailer of the final step does, lines 128-134), or release has
\* thrown. The handlers of the thread (writer.cpp lines 148-154, main.cpp
\* lines 289-295) print the exception and std::exit(-1) ends the process,
\* the capture loop with it.
WriterCatch ==
    /\ wpc \in {"encode", "flush", "threw"}
    /\ wpc' = "exited"
    /\ ppc' = "exited"
    /\ UNCHANGED <<run, pkt, cur_fh, w_fh, frames, cur_frame, dec, enc, encdelay, encgroup,
                   wcopy, iter, written, written_frames, captured, submitted>>
    /\ UNCHANGED <<errVars, wrVars, poolVars, queueVars, sessVars, capVars>>

\* a fault in the capture loop of main. averror throws (avcodec_send_packet
\* returns an error, main.cpp line 301, or avcodec_receive_frame one that
\* is not EAGAIN, line 323), or release has thrown. The exception leaves
\* the try block (lines 120-333): its locals are destroyed before the
\* handler of line 333 is entered, and f_writer, a std::thread that was
\* not joined, is one of them: its destructor calls std::terminate, which
\* aborts the process. The handler does not run.
MainUnwind ==
    /\ (ppc = "get" /\ dec) \/ ppc \in {"recv", "threw"}
    /\ ppc' = "aborted"
    /\ wpc' = "aborted"
    /\ UNCHANGED <<run, pkt, cur_fh, w_fh, frames, cur_frame, dec, enc, encdelay, encgroup,
                   wcopy, iter, written, written_frames, captured, submitted>>
    /\ UNCHANGED <<errVars, wrVars, poolVars, queueVars, sessVars, capVars>>

NextPipe ==
    \/ NextOpen
    \/ StartWriter
    \/ ReadFrame
    \/ GetFrameHolder
    \/ ReceiveFrame
    \/ ReceiveAgain
    \/ PacketUnref
    \/ StopRun
    \/ Join
    \/ WriterPop
    \/ WriterPopTimeout
    \/ WriterCheckRun
    \/ Encode
    \/ FrameUnref
    \/ HolderRelease
    \/ Flush
    \/ WriterCatch
    \/ MainUnwind


(***************************************************************************)
(* The specifications.                                                     *)
(***************************************************************************)
InitPool == PoolInit /\ QueueIdle /\ SessIdle /\ CapIdle /\ PipeIdle /\ ErrIdle /\ WrIdle

SpecPool == InitPool /\ [][NextPool]_vars

InitQueue == PoolIdle /\ QueueIdle /\ SessIdle /\ CapIdle /\ PipeIdle /\ ErrIdle /\ WrIdle

SpecQueue == InitQueue /\ [][NextQueue]_vars

InitSess == PoolIdle /\ QueueIdle /\ SessInit /\ CapInit /\ PipeIdle /\ ErrIdle /\ WrIdle

SpecSess == InitSess /\ [][NextSess \/ NextCap]_vars

InitPipe ==
    /\ PipePoolInit
    /\ QueueIdle
    /\ SessInit
    /\ c.framerate = <<10, 1>>
    /\ CapIdle
    /\ PipeInit
    /\ ErrIdle /\ WrIdle

SpecPipe == InitPipe /\ [][NextPipe]_vars


(***************************************************************************)
(* C1: whatever the pool size and the interleaving of the two threads, no  *)
(* slot is held by both threads at once, and a slot is held by a thread    *)
(* exactly when its flag is set: an acquire of a slot succeeds only on a   *)
(* free flag, which only a release of that slot by its holder produces.    *)
(***************************************************************************)
C1_ExactlyOneClaimant ==
    /\ held["capture"] \cap held["writer"] = {}
    /\ \A i \in Slots : used[i] <=> (\E t \in Threads : i \in held[t])

\* both threads hold a slot of a full pool while one of them is scanning
C1_Witness ==
    /\ n_ >= 2
    /\ held["capture"] # {} /\ held["writer"] # {}
    /\ \A i \in Slots : used[i]
    /\ gpc["capture"] = "scan" /\ gi["capture"] > 0

(***************************************************************************)
(* C2: a release of a slot whose flag is free throws and leaves the flag   *)
(* free; it never returns normally.                                        *)
(***************************************************************************)
C2_ReleaseOfFreeThrows ==
    [][\A t \in Threads : \A i \in 0 .. (MaxN - 1) :
          (Release(t, i) /\ ~used[i]) => (gpc'[t] = "threw" /\ gret'[t] = "threw" /\ ~used'[i])]_vars

\* a release of a free slot by a thread that holds nothing has thrown
C2_Witness ==
    \E t \in Threads : gpc[t] = "threw" /\ held[t] = {} /\ \E i \in Slots : ~used[i]


(***************************************************************************)
(* C3: the items the pops have returned, followed by the items still in    *)
(* the deque, are exactly the items pushed, in the order they were pushed: *)
(* the popped sequence is a prefix of the pushed one, nothing is lost,     *)
(* duplicated or reordered.                                                *)
(***************************************************************************)
C3_Fifo == pushed = popped \o d_

\* three different items were pushed and all three were popped
C3_Witness ==
    /\ Len(popped) = 3
    /\ popped[1] # popped[2] /\ popped[2] # popped[3] /\ popped[1] # popped[3]
    /\ d_ = <<>>

Releases(r) == Cardinality({k \in 1 .. Len(env.log) : env.log[k] = r})

\* C5: after a successful open under any of the three buffer strategies,
\* calling close twice in a row releases every resource at most once, and
\* the second close performs no operation on a resource that is already
\* released. (The code: refuted for BUF_INTERNAL and BUF_GLPBO.)
C5_CloseTwiceReleasesOnce ==
    (opc = "closed" /\ ticks = 0) =>
        /\ \A r \in Resources : Releases(r) <= 1
        /\ env.faults = {}

\* C6: the close that read_header runs on its error path, from whatever
\* partially opened state the failure left, never uses a null display or
\* context handle, never calls a function pointer that was not looked up,
\* never reads a slice array that is not allocated. (The code: refuted.)
C6_PartialCloseGuarded ==
    (opc = "failed" /\ xclose = 0) =>
        \A f \in env.faults :
            /\ f[1] # "null_call"
            /\ f[2] \notin {"display", "gl_ctx", "pvt_slices", "glpbo_slices"}
            /\ f[2] \notin {BufName(i) : i \in SliceIdx} \cup {PboName(i) : i \in SliceIdx}

\* C7: under BUF_INTERNAL and BUF_GLPBO an obtain made while every slice is
\* claimed returns none, at once (the call ends at the time its wait ended)
\* and with AVERROR(ENOMEM); an obtain made when a slice is free, as after
\* the release of any one, returns a slice.
C7_ObtainFullThenFree ==
    (c.framebuf_type \in {BUF_INTERNAL, BUF_GLPBO} /\ rp.ret # "none") =>
        /\ rp.full => (rp.slice = -1 /\ rp.ret = "ENOMEM" /\ rp.warn)
        /\ ~rp.full => rp.slice \in SliceIdx
        /\ (opc = "ready" /\ clockmode = "exact") => now = rp.wake

\* C7 happens: an obtain has failed on a full set of slices, a slice was
\* released, and the next obtain returned it
C7_Witness ==
    /\ c.framebuf_type \in {BUF_INTERNAL, BUF_GLPBO}
    /\ warns >= 1
    /\ rp.ret = "0"
    /\ rp.slice \in SliceIdx
    /\ Cardinality(outst) = NSlices

\* one second of the clock
Second == AV_TIME_BASE

\* the frame duration is the exact period of the rate, in microseconds
ExactRate(cc) == cc.frame_duration * cc.framerate[1] = cc.framerate[2] * AV_TIME_BASE

\* C8 as amended: on a simulated clock and with no unit dropped, the units
\* are stamped one frame duration apart, the k-th at k frame durations after
\* the open; and when the period of the rate is a whole number of
\* microseconds, exactly r * T units are delivered in T = 1 second.
C8_ExactPacing ==
    (opc = "ready" /\ clockmode = "exact" /\ ticks >= 1 /\ units = ticks) =>
        /\ rp.pts = ticks * c.frame_duration
        /\ rp.prev # -1 => rp.pts - rp.prev = c.frame_duration
        /\ (ExactRate(c) /\ now <= Second /\ Second < now + c.frame_duration) =>
               units * c.framerate[2] = c.framerate[1]

\* C8 happens: ten units in one second at ten units a second
C8_Witness ==
    /\ opc = "ready"
    /\ clockmode = "exact"
    /\ c.framerate = <<10, 1>>
    /\ ticks = 10
    /\ units = 10
    /\ now = Second
    /\ rp.pts - rp.prev = 100000

\* C8 as stated: at any configured rate r, exactly r * T units in T = 1
\* second. (Refuted at 6 units a second, whose period is rounded to 166667
\* microseconds: five units.)
C8_UnitsPerSecondAnyRate ==
    (opc = "ready" /\ clockmode = "exact" /\ ticks >= 1 /\ units = ticks) =>
        ((now <= Second /\ Second < now + c.frame_duration) =>
            units * c.framerate[2] = c.framerate[1])



\* the units sent to the encoder, in order
SubmittedUnits == [i \in 1 .. Len(submitted) |-> submitted[i][1]]

\* C9: fed n = 5 units with an encoder that buffers k = 2 before it emits,
\* the writer has written exactly the n packets, in submission order, when
\* it is done: the final flush drains what the encoder still holds. (The
\* code: refuted, the flush receives one packet.)
C9_AllPacketsWritten ==
    (wpc = "done" /\ encdelay = 2 /\ Len(submitted) = MAX_FRAMES) =>
        written = SubmittedUnits

\* C10: when read_packet fails on exactly one tick of a run, that unit
\* alone is dropped: the capture loop goes on to the following ticks until
\* it has its MAX_FRAMES frames, every other unit reaches the writer in
\* order, and one warning is logged. (The code: refuted, the loop ends.)
C10_OneFailedTickOneDrop ==
    (ppc = "end" /\ ticks - units = 1) =>
        /\ cur_frame = MAX_FRAMES
        /\ Len(captured) = ticks - 1
        /\ SubmittedUnits = captured
        /\ warns = 1

\* C11: the writer leaves its main loop only with the run flag false and the
\* queue empty, so that every unit pushed before the stop request has been
\* popped and sent to the encoder when the writer is out of the loop. (The
\* code: refuted, run_ is read after pop has given the mutex back.)
C11_ExitOnlyWhenDrained ==
    (wpc \in {"flush", "done"}) =>
        /\ ~run
        /\ d_ = <<>>
        /\ SubmittedUnits = captured


\* C12: the units are submitted to the encoder in the order the capture
\* thread pushed them: the i-th unit submitted is the i-th unit pushed and
\* carries the presentation index i; none is reordered and none is skipped.
C12_SubmittedInPushOrder ==
    /\ Len(submitted) <= Len(captured)
    /\ \A i \in 1 .. Len(submitted) : submitted[i] = <<captured[i], i>>

\* the writer has submitted two units while two more wait in the queue
C12_Witness ==
    /\ Len(submitted) >= 2
    /\ Len(d_) >= 2

\* the handles of the context and the resource each one refers to
Handles ==
    {<<c.xdisplay, "display">>, <<c.win_pixmap, "win_pixmap">>,
     <<c.gl_pixmap, "gl_pixmap">>, <<c.gl_ctx, "gl_ctx">>,
     <<c.gl_texmap, "gl_texmap">>, <<c.pvt_framebuf.slices, "pvt_slices">>,
     <<c.glpbo_framebuf.slices, "glpbo_slices">>}

\* C13: when read_header has failed, at whatever step, it has returned an
\* error after running its teardown, and the session is as closed: nothing
\* it acquired is still live, nothing was released more than once, and no
\* handle of the context to a released resource is left non-null. (The
\* code: refuted.)
C13_FailedOpenIsClosed ==
    (opc = "failed" /\ xclose = 0) =>
        /\ rv # "0"
        /\ \A r \in Resources : env.heap[r] # "live" /\ Releases(r) <= 1
        /\ \A h \in Handles : env.heap[h[2]] = "released" => h[1] = 0

\* the place of the release of r in the order of releases, 0 if r was never
\* released
ReleasedAt(r) ==
    IF \E k \in 1 .. Len(env.log) : env.log[k] = r
    THEN CHOOSE k \in 1 .. Len(env.log) : env.log[k] = r
    ELSE 0

\* a was released, and b after it
ReleasedBefore(a, b) == 0 < ReleasedAt(a) /\ ReleasedAt(a) < ReleasedAt(b)

\* C14: the close of an opened session releases everything the open
\* acquired, in the reverse of the order of acquisition: the buffer objects,
\* then the texture, then the context, then the GLX pixmap, then the
\* redirection of the window, then the connection. (The code: refuted.)
C14_CloseReverseOrder ==
    (opc = "closed" /\ xclose = 1) =>
        /\ \A r \in Resources : env.heap[r] # "live"
        /\ \A i \in SliceIdx :
              c.framebuf_type = BUF_GLPBO => ReleasedBefore(PboName(i), "gl_texmap")
        /\ ReleasedBefore("gl_texmap", "gl_ctx")
        /\ ReleasedBefore("gl_ctx", "gl_pixmap")
        /\ ReleasedBefore("gl_pixmap", "redirect")
        /\ ReleasedBefore("redirect", "display")

(***************************************************************************)
(* xcompgrab.c: the free callbacks called on a slice that is not claimed.  *)
(***************************************************************************)
\* the slices of the session's buffer, and the name of the block of slice i
FrameBuf(cc) == IF cc.framebuf_type = BUF_INTERNAL THEN cc.pvt_framebuf ELSE cc.glpbo_framebuf
SliceName(cc, i) == IF cc.framebuf_type = BUF_INTERNAL THEN BufName(i) ELSE PboName(i)

\* the free callback of the session's buffer type runs for slice i while the
\* slice's used flag is 0 (a second release, or a release of a slice never
\* claimed): the compare-and-swap from 1 to 0 fails, its empty block runs,
\* the callback returns. The call is remembered among the faults.
FreeOfFreeSlice(i) ==
    /\ opc = "ready"
    /\ c.framebuf_type \in {BUF_INTERNAL, BUF_GLPBO}
    /\ FrameBuf(c).used[i] = 0
    /\ c' = IF c.framebuf_type = BUF_INTERNAL
            THEN [c EXCEPT !.pvt_framebuf = pvt_free_membuffer(@, i)]
            ELSE [c EXCEPT !.glpbo_framebuf = pvt_free_pbobuffer(@, i)]
    /\ env' = [env EXCEPT !.faults = @ \cup {<<"released_free_slice", SliceName(c, i)>>}]
    /\ UNCHANGED <<opc, rv, configs, is_x_error, handler, prev_x_error_handler, xclose,
                   capVars, notSessCap>>

InitFree == PoolIdle /\ QueueIdle /\ SessInit /\ CapIdle /\ PipeIdle /\ ErrIdle /\ WrIdle

NextFree ==
    \/ NextOpen
    \/ ReadPacket
    \/ \E u \in outst : PktUnref(u)
    \/ HeapUnref
    \/ \E i \in SliceIdx : FreeOfFreeSlice(i)

SpecFree == InitFree /\ [][NextFree]_vars

\* C15: under BUF_INTERNAL and BUF_GLPBO a release of a slice whose used
\* flag is already 0 is fatal: once one has happened the process has been
\* aborted, it does not go on as a ready session. (The code: refuted.)
C15_FreeOfFreeSliceAborts ==
    (\E f \in env.faults : f[1] = "released_free_slice") => opc = "aborted"

\* the writer has left its loop and sent the encoder the end-of-stream
\* frame: avcodec_send_frame(ocodec, 0) is inside if(written_frames) in
\* writer.cpp and unconditional in fn_write of main.cpp
EosSent == wpc = "done" /\ (wcopy = "main" \/ written_frames # 0)

\* C16: whenever the writer has stopped after units were submitted, however
\* many packets its loop wrote (none at all included), it has sent the
\* encoder the end-of-stream frame and has drained it: nothing the encoder
\* buffered is left unwritten when the container is finalized. (The code:
\* refuted.)
C16_StopFlushesAndDrains ==
    (wpc = "done" /\ submitted # <<>>) => (EosSent /\ enc = <<>>)

\* the packets of the encoder that av_write_frame was handed so far
PacketsWritten == Cardinality({k \in 1 .. Len(written) : written[k] # 0})

\* C17: the count the writer prints when it is done is the number of
\* packets written to the container over the whole run, the packet written
\* by the final flush included. (The code: refuted.)
C17_ReportedCountIsPacketsWritten ==
    wpc = "done" => written_frames = PacketsWritten

\* the frame holders in the queue
Queued == {d_[k] : k \in 1 .. Len(d_)}

\* C18: every iteration of the writer's loop that popped a unit releases
\* its frame holder once, whether the encoder emitted a packet or was not
\* ready: between iterations the writer holds no frame holder, a holder's
\* flag is set exactly while the capture loop holds it, it is queued or the
\* writer is working on it, a release never throws, and every popped unit
\* has been sent to the encoder.
C18_SlotReleasedEachIteration ==
    /\ wpc # "threw"
    /\ wpc \in {"pop", "timedout", "flush", "done"} =>
          (w_fh = -1 /\ Len(popped) = Len(submitted))
    /\ ppc # "idle" =>
          \A i \in Slots : used[i] <=> (i = cur_fh \/ i = w_fh \/ i \in Queued)

\* the encoder was not ready for the first unit: nothing is written, the
\* holder is released, and the writer is back at its pop
C18_Witness ==
    /\ Len(submitted) = 1
    /\ written = <<>>
    /\ enc # <<>>
    /\ wpc = "pop"
    /\ w_fh = -1
    /\ \A i \in Slots : ~used[i]

\* C19: once the run flag is false the writer leaves its loop and the join
\* of main returns, after the writer has taken every unit that was still in
\* the queue: when the join has returned the writer is done and the queue
\* is empty. (The code: refuted, by the race of C11.)
C19_JoinReturnsAfterDrain ==
    ppc = "end" => (~run /\ wpc = "done" /\ d_ = <<>>)

\* a fault of one of the two threads has ended the process
EndedByFault == ppc \in {"exited", "aborted"}

\* it was ended by a handler at the top of the faulting thread, which
\* printed the exception and called std::exit
EndedByHandler == ppc = "exited" /\ wpc = "exited"

\* C20: a fault raised in the writer thread or in the capture loop is
\* caught by the handler at the top of its thread, printed, and ends the
\* whole process: a process that a fault has ended was ended by such a
\* handler. (The code: refuted for a fault of the capture loop.)
C20_FaultCaughtLoggedExits ==
    EndedByFault => EndedByHandler

\* the other thread has made no call on the pool yet: whatever thread t did
\* so far, it did with no concurrent activity
Other(t) == CHOOSE o \in Threads : o # t
Alone(t) == gpc[Other(t)] = "idle" /\ gret[Other(t)] = "none"

\* the lowest-index slot whose flag is free, n_ if there is none
LowestFree == IF \E i \in Slots : ~used[i]
              THEN CHOOSE i \in Slots : ~used[i] /\ \A j \in 0 .. (i - 1) : used[j]
              ELSE n_

\* C21: get_one is first-fit. Run with no concurrent activity, the scan has
\* passed only claimed slots, a call that returns a slot returns the
\* lowest-index free one and sets that flag only, and a call returns none
\* exactly when every slot is claimed. Under concurrency the index moves on
\* only past a slot whose flag it has just seen set, and none is returned
\* only when the index has passed every slot.
C21_GetOneFirstFit ==
    /\ [](\A t \in Threads :
            (Alone(t) /\ gpc[t] = "scan") => \A j \in 0 .. (gi[t] - 1) : used[j])
    /\ [][\A t \in Threads :
            (Alone(t) /\ gpc[t] = "scan" /\ gpc'[t] = "idle") =>
                IF LowestFree < n_
                THEN /\ gret'[t] = "slot"
                     /\ held'[t] = held[t] \cup {LowestFree}
                     /\ used' = [used EXCEPT ![LowestFree] = TRUE]
                ELSE /\ gret'[t] = "null"
                     /\ used' = used /\ held' = held]_vars
    /\ [][\A t \in Threads :
            /\ (gpc[t] = "scan" /\ gi'[t] = gi[t] + 1) => used[gi[t]]
            /\ (gpc[t] = "scan" /\ gpc'[t] = "idle" /\ gret'[t] = "null") =>
                  (gi[t] = n_ /\ used' = used)]_vars

\* a thread, alone, holds every slot of a pool of MaxN and its next call
\* has returned none
C21_Witness ==
    \E t \in Threads :
        /\ Alone(t)
        /\ n_ = MaxN
        /\ held[t] = Slots
        /\ gpc[t] = "idle" /\ gret[t] = "null"

\* the outstanding units (delivered, not yet released) backed by slice i
OnSlice(i) == {u \in outst : u.slice = i}

\* C22: under BUF_INTERNAL and BUF_GLPBO a slice has at most one claimant.
\* A unit is delivered only on a slice no outstanding unit is backed by, so
\* no two outstanding units share a slice; the slice of an outstanding unit
\* has its used flag set; and there are never more outstanding units than
\* slices.
C22_OneClaimantPerSlice ==
    /\ [](c.framebuf_type \in {BUF_INTERNAL, BUF_GLPBO} =>
            /\ Cardinality(outst) <= NSlices
            /\ \A i \in SliceIdx : Cardinality(OnSlice(i)) <= 1
            /\ \A u \in outst : FrameBuf(c).used[u.slice] = 1)
    /\ [][(units' = units + 1 /\ rp'.slice # -1) =>
             (OnSlice(rp'.slice) = {} /\ FrameBuf(c).used[rp'.slice] = 0)]_vars

\* every slice backs an outstanding unit, after one of them was released
\* and claimed again
C22_Witness ==
    /\ c.framebuf_type \in {BUF_INTERNAL, BUF_GLPBO}
    /\ Cardinality(outst) = NSlices
    /\ units > NSlices

\* ---------------------------------------------------------------------
\* C23: the pending-error flag is never left set across an open: whenever
\* xcompgrab_read_header has returned, with success or with any failure,
\* is_x_error is 0; and a step that runs pvt_check_x_error with the flag
\* set leaves it 0.
OpenReturned == opc \in {"ready", "failed", "closed"}

CheckSteps == {"redirect", "win_pixmap", "gl_pixmap", "make_current"}

C23_FlagClearWhenOpenReturns ==
    /\ [](OpenReturned => is_x_error = 0)
    /\ [][(opc \in CheckSteps /\ opc' # opc /\ is_x_error = 1) => is_x_error' = 0]_vars

\* an open that failed after the handler had taken an error
C23_Witness == opc = "failed" /\ env.xerror /\ is_x_error = 0

\* ---------------------------------------------------------------------
\* C24: an error the server reports for a request of the open, while
\* pvt_x_error_handler is installed, is observed by a pvt_check_x_error
\* before the open can return success, and sends the open to err_exit: no
\* open that was reported an error gets past its last check or returns
\* success, the flag is only ever set while the handler is still
\* installed, and a check that finds an error goes to err_exit.
C24_NoSuccessWithError ==
    /\ [](env.xerror => (opc # "ready" /\ (handler = "prev" => opc \in {"failed", "closed"})))
    /\ [](is_x_error = 1 => handler = "pvt")
    /\ [][(opc \in CheckSteps /\ opc' # opc /\ (is_x_error = 1 \/ (env'.xerror /\ ~env.xerror)))
             => opc' = "err_exit"]_vars

\* an error taken by the handler and then observed by a check, which
\* cleared the flag and went to err_exit
C24_Witness == opc = "err_exit" /\ env.xerror /\ is_x_error = 0

(***************************************************************************)
(* The error channel (is_x_error, x_error_buf) when two threads open a     *)
(* session at the same time. Each thread does what xcompgrab_read_header   *)
(* does with the channel: it installs the handler, issues a request the    *)
(* server may reject, runs pvt_check_x_error (XSync, the read of the flag, *)
(* the clear of the flag, each a step of its own: nothing in the code      *)
(* makes them one) and puts the previous handler back. The flag, the       *)
(* message buffer and the installed handler are process-wide; the display  *)
(* connection and prev_x_error_handler are the thread's own.               *)
(***************************************************************************)
ErrInit ==
    /\ epc = [s \in Openers |-> "start"]
    /\ inflight = [s \in Openers |-> "none"]
    /\ eseen = [s \in Openers |-> 0]
    /\ eprev = [s \in Openers |-> "prev"]

\* what the steps of this section leave alone
errRest == <<poolVars, queueVars, capVars, pipeVars, wrVars,
             c, env, opc, rv, configs, prev_x_error_handler, xclose>>

\* line 473: prev_x_error_handler = XSetErrorHandler(pvt_x_error_handler)
ErrInstall(s) ==
    /\ epc[s] = "start"
    /\ eprev' = [eprev EXCEPT ![s] = handler]
    /\ handler' = "pvt"
    /\ epc' = [epc EXCEPT ![s] = "request"]
    /\ UNCHANGED <<is_x_error, inflight, eseen, errRest>>

\* lines 485, 533, 542, 556: a request the server may reject; its error
\* comes back on the thread's connection
ErrRequest(s) ==
    /\ epc[s] = "request"
    /\ \E err \in BOOLEAN :
          inflight' = [inflight EXCEPT ![s] = IF err THEN "sent" ELSE "none"]
    /\ epc' = [epc EXCEPT ![s] = "sync"]
    /\ UNCHANGED <<is_x_error, handler, eseen, eprev, errRest>>

\* line 448: XSync reads the error and Xlib calls the handler installed at
\* that moment: pvt_x_error_handler sets the flag (line 439); the handler
\* that was there before is Xlib's, which ends the process
ErrSync(s) ==
    /\ epc[s] = "sync"
    /\ IF inflight[s] = "sent"
       THEN /\ inflight' = [inflight EXCEPT ![s] = "delivered"]
            /\ IF handler = "pvt"
               THEN /\ is_x_error' = pvt_x_error_handler(is_x_error, TRUE)
                    /\ epc' = [epc EXCEPT ![s] = "read"]
               ELSE /\ is_x_error' = is_x_error
                    /\ epc' = [o \in Openers |-> "exited"]
       ELSE /\ epc' = [epc EXCEPT ![s] = "read"]
            /\ UNCHANGED <<inflight, is_x_error>>
    /\ UNCHANGED <<handler, eseen, eprev, errRest>>

\* line 449: if(is_x_error)
ErrRead(s) ==
    /\ epc[s] = "read"
    /\ eseen' = [eseen EXCEPT ![s] = is_x_error]
    /\ epc' = [epc EXCEPT ![s] = IF is_x_error = 1 THEN "clear" ELSE "restore"]
    /\ UNCHANGED <<is_x_error, handler, inflight, eprev, errRest>>

\* lines 450-452: the message is logged, is_x_error = 0, return -1, and
\* the caller goes to err_exit
ErrClear(s) ==
    /\ epc[s] = "clear"
    /\ is_x_error' = 0
    /\ epc' = [epc EXCEPT ![s] = "err_exit"]
    /\ UNCHANGED <<handler, inflight, eseen, eprev, errRest>>

\* lines 628-633: err_exit clears the flag, puts the previous handler back
\* and returns the error
ErrFail(s) ==
    /\ epc[s] = "err_exit"
    /\ is_x_error' = reset_x_error(is_x_error)
    /\ handler' = eprev[s]
    /\ epc' = [epc EXCEPT ![s] = "failed"]
    /\ UNCHANGED <<inflight, eseen, eprev, errRest>>

\* lines 562-565 (and the return 0 of line 617): the previous handler is
\* put back and the open succeeds
ErrRestore(s) ==
    /\ epc[s] = "restore"
    /\ handler' = eprev[s]
    /\ epc' = [epc EXCEPT ![s] = "ok"]
    /\ UNCHANGED <<is_x_error, inflight, eseen, eprev, errRest>>

NextErr ==
    \E s \in Openers :
       \/ ErrInstall(s)
       \/ ErrRequest(s)
       \/ ErrSync(s)
       \/ ErrRead(s)
       \/ ErrClear(s)
       \/ ErrFail(s)
       \/ ErrRestore(s)

InitErr == PoolIdle /\ QueueIdle /\ SessIdle /\ CapIdle /\ PipeIdle /\ ErrInit /\ WrIdle

SpecErr == InitErr /\ [][NextErr]_vars

\* ---------------------------------------------------------------------
\* C25: the error channel is a single critical section: with two sessions
\* opening at the same time, an open fails on the channel only for an
\* error of its own request, and no open succeeds after its own error was
\* handed to pvt_x_error_handler (the error was not cleared or consumed by
\* the other session).
C25_ErrorChannelIsCriticalSection ==
    \A s \in Openers :
       /\ epc[s] \in {"restore", "ok"} => inflight[s] # "delivered"
       /\ epc[s] \in {"clear", "err_exit", "failed"} => inflight[s] = "delivered"

\* ---------------------------------------------------------------------
\* C26: a tick never captures early: the call of read_packet obtains its
\* buffer and reads the texture at the time its wait ended, which is at or
\* after the anchor of the tick, also when the call began before the
\* anchor.
C26_NeverCapturesEarly ==
    [][ticks' = ticks + 1 =>
          /\ rp'.anchor = c'.time_frame
          /\ rp'.wake >= rp'.anchor
          /\ now' = rp'.wake
          /\ now' >= c'.time_frame]_vars

\* C26 happens: a call that began before its anchor (the work of the tick
\* before took no time) and delivered a unit
C26_Witness ==
    /\ opc = "ready"
    /\ ticks >= 2
    /\ rp.ret = "0"
    /\ rp.prev # -1
    /\ rp.prev < rp.anchor
    /\ rp.wake = rp.anchor

\* ---------------------------------------------------------------------
\* C27 as amended: every unit is stamped with the clock read when the wait
\* of its tick ended: the timestamp is never before the anchor of the tick,
\* anchor_0 + k * frame_duration for the k-th tick (the clock is 0 at the
\* open, so anchor_0 = 0), it is the anchor when the wait ends on the
\* anchor, and it is the later clock value when the wait returns late or
\* the tick starts behind schedule; the frame duration is that of the rate.
C27_StampedAtWake ==
    (opc = "ready" /\ ticks >= 1) =>
        /\ rp.anchor = ticks * c.frame_duration
        /\ c.frame_duration = FrameDuration(c.framerate)
        /\ rp.ret = "0" =>
              /\ rp.pts = rp.wake
              /\ rp.pts >= rp.anchor
              /\ clockmode = "exact" => rp.pts = rp.anchor

\* C27 happens: a unit stamped after its anchor
C27_Witness ==
    /\ opc = "ready"
    /\ ticks >= 2
    /\ rp.ret = "0"
    /\ rp.pts > rp.anchor

\* C27 as stated: the timestamp of the unit of the k-th tick is
\* anchor_0 + k * frame_duration, also when the wait returns late or the
\* tick starts behind schedule. (Refuted when av_usleep returns late: the
\* unit carries the clock value read at line 646, not the anchor.)
C27_StampedWithAnchor ==
    (opc = "ready" /\ ticks >= 1 /\ rp.ret = "0") =>
        (rp.pts = rp.anchor /\ rp.anchor = ticks * c.frame_duration)

\* ---------------------------------------------------------------------
\* C28: the anchor advances by one frame duration on every tick, the ticks
\* whose obtain fails included, and a tick whose obtain fails ends at the
\* time its wait ended (it does not wait for a slice): after k ticks the
\* anchor is its initial value (0, the clock at the open) plus
\* k * frame_duration, however many ticks were dropped.
C28_AnchorAdvancesEveryTick ==
    /\ []((opc = "ready") => c.time_frame = ticks * c.frame_duration)
    /\ [][ticks' = ticks + 1 =>
             /\ c'.time_frame = c.time_frame + c.frame_duration
             /\ c'.frame_duration = c.frame_duration
             /\ rp'.ret # "0" => now' = rp'.wake]_vars

\* C28 happens: ticks were dropped on a full set of slices and the anchor
\* went on
C28_Witness ==
    /\ opc = "ready"
    /\ c.framebuf_type \in {BUF_INTERNAL, BUF_GLPBO}
    /\ warns >= 2
    /\ units < ticks
    /\ rp.ret = "ENOMEM"
    /\ c.time_frame = ticks * c.frame_duration

\* ---------------------------------------------------------------------
\* C29: after each submission the writer drains the encoder: when it has
\* dealt with the frame it sent (it goes on to unref the frame and release
\* the holder), the encoder has no packet ready, so no packet that is ready
\* after a submission stays in the encoder until a later submission.
C29_DrainsAfterSubmission ==
    wpc \in {"unref", "release"} => ~encoder_ready(enc, FALSE)

\* ---------------------------------------------------------------------
\* C30: under BUF_GLPBO a slice that is used again is unmapped first: no
\* buffer object is mapped twice without an unmap in between, glGetTexImage
\* is never issued into a buffer object that is still mapped, and while
\* the session is open the buffer objects that are mapped are those whose
\* slice has a pointer.
MapFaults ==
    {<<"mapped_twice", PboName(i)>> : i \in SliceIdx}
        \cup {<<"transfer_while_mapped", PboName(i)>> : i \in SliceIdx}

C30_UnmappedBeforeReuse ==
    c.framebuf_type = BUF_GLPBO =>
        /\ env.faults \cap MapFaults = {}
        /\ opc = "ready" =>
              \A i \in SliceIdx : (i \in env.mapped) <=> (c.glpbo_framebuf.ptr[i] # 0)

\* C30 happens: more units than slices were delivered, so a slice that had
\* been mapped was used again and is mapped now
C30_Witness ==
    /\ c.framebuf_type = BUF_GLPBO
    /\ opc = "ready"
    /\ units > NSlices
    /\ rp.ret = "0"
    /\ rp.slice \in env.mapped
    /\ env.mapped = SliceIdx

\* ---------------------------------------------------------------------
\* the consumer drops the last reference to the unit u of a slice of the
\* BUF_GLPBO strategy, whose free callback is pvt_free_pbobuffer
PboRelease(u) ==
    /\ c.framebuf_type = BUF_GLPBO
    /\ opc = "ready"
    /\ opc' = "ready"
    /\ u.hasbuf
    /\ outst' = outst \ {u}
    /\ ticks' = ticks

\* C31 as amended: under BUF_GLPBO the release of a unit frees the claim
\* of its slice and leaves the mapping as it is: after the release the flag
\* of the slice is 0, the slice still has its pointer and its buffer object
\* is still mapped (it is unmapped when the slice is obtained again, before
\* the transfer).
C31_ReleaseFreesClaimKeepsMapping ==
    [][\A u \in outst : PboRelease(u) =>
           /\ c'.glpbo_framebuf.used[u.slice] = 0
           /\ c'.glpbo_framebuf.ptr = c.glpbo_framebuf.ptr
           /\ env'.mapped = env.mapped
           /\ u.slice \in env'.mapped]_vars

\* C31 happens: a slice that was released is free and still mapped
C31_Witness ==
    /\ c.framebuf_type = BUF_GLPBO
    /\ opc = "ready"
    /\ \E i \in SliceIdx :
          /\ c.glpbo_framebuf.used[i] = 0
          /\ c.glpbo_framebuf.ptr[i] # 0
          /\ i \in env.mapped

\* C31 as stated: after the release the flag of the slice is free and the
\* slice holds no live mapping. (Refuted: pvt_free_pbobuffer only resets
\* the flag; the buffer object stays mapped.)
C31_ReleaseUnmaps ==
    [][\A u \in outst : PboRelease(u) =>
           /\ c'.glpbo_framebuf.used[u.slice] = 0
           /\ u.slice \notin env'.mapped]_vars

\* ---------------------------------------------------------------------
\* the number of places of the queue that refer to frame holder i
InQueue(i) == Cardinality({k \in 1 .. Len(d_) : d_[k] = i})

\* the number of owners of frame holder i: the capture loop, the queue
\* (once per place), the writer
Owners(i) ==
    (IF cur_fh = i THEN 1 ELSE 0) + InQueue(i) + (IF w_fh = i THEN 1 ELSE 0)

\* C32: in the capture/writer pipeline every frame holder is free or has
\* exactly one owner (the capture loop, one place of the queue, the writer),
\* a holder in the queue or with the writer has its flag set, and when the
\* capture loop has stopped and joined the writer every holder is free.
C32_SlotOwnership ==
    ppc # "idle" =>
        /\ \A i \in Slots :
              /\ Owners(i) <= 1
              /\ used[i] <=> Owners(i) = 1
        /\ ppc = "end" => \A i \in Slots : ~used[i]

\* the first two parts of C32 alone
SlotOwnershipWhileRunning ==
    ppc # "idle" =>
        \A i \in Slots : Owners(i) <= 1 /\ (used[i] <=> Owners(i) = 1)

\* ---------------------------------------------------------------------
\* C33: in every interleaving of the capture loop and the writer loop,
\* release is called only on a frame holder whose flag is set and which the
\* caller holds: where the capture loop or the writer is about to release,
\* the flag of its holder is set and nobody else owns the holder, and the
\* "This is not possible!" error is never thrown.
C33_ReleaseOnlyOfClaimed ==
    /\ ppc # "threw"
    /\ wpc # "threw"
    /\ ppc = "recv" => (cur_fh \in Slots /\ used[cur_fh] /\ Owners(cur_fh) = 1)
    /\ wpc \in {"encode", "unref", "release"} =>
          (w_fh \in Slots /\ used[w_fh] /\ Owners(w_fh) = 1)

\* C33 happens: the capture loop has just released its holder while the
\* writer is about to release another
C33_Witness ==
    /\ ppc = "unref"
    /\ wpc = "release"
    /\ cur_fh = -1
    /\ used[w_fh]
    /\ Len(submitted) >= 2

\* ---------------------------------------------------------------------
\* The pipeline under fair scheduling: the writer thread and the capture
\* loop are threads of the operating system, and each step of theirs that
\* stays possible is taken in the end (the retry of get_one yields,
\* main.cpp line 308). Faults are not forced.
WriterSteps ==
    WriterPop \/ WriterPopTimeout \/ WriterCheckRun \/ Encode \/ FrameUnref \/ HolderRelease

\* (the encoder is one that emits each frame as it takes it: how long it
\* holds frames has no part in the release of the frame holders)
InitPipeFair == InitPipe /\ encdelay = 0 /\ encgroup = 1

SpecPipeFair ==
    InitPipeFair /\ [][NextPipe]_vars /\ WF_vars(WriterSteps) /\ WF_vars(GetFrameHolder)

\* every frame holder is claimed
AllSlotsClaimed == \A i \in Slots : used[i]

\* C34: while the writer runs, the retry loop of the capture thread for a
\* free frame holder ends: from a state in which the capture loop is at
\* get_one with every holder claimed, the loop is left in the end (a holder
\* is obtained, or a fault ends the process); the pipeline does not stay
\* for ever with every holder claimed and the capture loop spinning.
C34_RetryLoopEnds ==
    (ppc = "get" /\ AllSlotsClaimed) ~> (ppc # "get")

\* C34 happens: the capture loop has obtained a holder after it had pushed
\* as many frames as there are holders
C34_Witness ==
    /\ ppc = "recv"
    /\ cur_frame = PoolSize
    /\ dec
    /\ AllSlotsClaimed
    /\ Len(d_) = PoolSize - 1

\* ---------------------------------------------------------------------
\* C35: a tick that claims a slice of the BUF_INTERNAL or BUF_GLPBO
\* strategy hands it to the consumer in a delivered packet or frees the
\* claim before it returns: between calls of read_packet every claimed
\* slice is the slice of a delivered packet the consumer still holds and
\* whose buffer carries the free callback.
C35_ClaimedSliceHasOwner ==
    (opc = "ready" /\ c.framebuf_type \in {BUF_INTERNAL, BUF_GLPBO}) =>
        \A i \in SliceIdx :
            FrameBuf(c).used[i] = 1 => \E u \in outst : u.slice = i /\ u.hasbuf

\* ---------------------------------------------------------------------
\* C36: within a tick every glXBindTexImageEXT of the window pixmap to the
\* texture is followed by glXReleaseTexImageEXT before the tick returns, on
\* every exit path: between calls of read_packet the pixmap is not bound.
C36_BindingReleasedEachTick ==
    opc = "ready" => ~tex_bound

\* ---------------------------------------------------------------------
\* C37: close does not free the slab while a delivered packet still claims
\* a slice of it: under BUF_INTERNAL every packet the consumer holds refers
\* to a slice buffer that is live in a slice array that is live, and the
\* free callback of such a packet never reads a slice array that was freed.
C37_HeldUnitsStayLive ==
    c.framebuf_type = BUF_INTERNAL =>
        /\ \A u \in outst :
              u.hasbuf => (env.heap[BufName(u.slice)] = "live" /\ env.heap["pvt_slices"] = "live")
        /\ (xclose <= 1 /\ opc # "failed") => <<"used_not_live", "pvt_slices">> \notin env.faults

\* the slab of the context was being built when the buffer of a slice could
\* not be allocated
SlabFailedAtSlice ==
    /\ c.framebuf_type = BUF_INTERNAL
    /\ c.pvt_framebuf.slices # 0
    /\ \E i \in SliceIdx : c.pvt_framebuf.buf[i] = 0

\* the blocks of the slab: the slice array and the slice buffers
SlabBlocks == {"pvt_slices"} \cup {BufName(i) : i \in SliceIdx}

\* C38: when the allocation of the slab fails at slice i during the open,
\* then after the cleanup of pvt_init_membuffer and the teardown of the
\* open every slice buffer that was allocated and the slice array have been
\* freed exactly once: none is freed twice, none is leaked.
C38_SlabFreedOnceOnFailure ==
    (opc = "failed" /\ xclose = 0 /\ SlabFailedAtSlice) =>
        \A r \in SlabBlocks :
            env.heap[r] # "none" => (env.heap[r] = "released" /\ Releases(r) = 1)

(***************************************************************************)
(* writer::impl driven by a client through start and stop (writer.cpp      *)
(* lines 138-171). The queue is empty: the thread of the instance goes     *)
(* round its loop on the timeout of pop until run_ is false. run is run_,  *)
(* wpc the position of the thread.                                         *)
(***************************************************************************)
WrInit ==
    /\ th_ = 0
    /\ nthr = 0
    /\ spc = "new"
    /\ calls = 0

\* what start and stop leave alone
wrRest == <<poolVars, queueVars, sessVars, capVars, errVars,
            ppc, pkt, cur_fh, w_fh, frames, cur_frame, dec, enc, encdelay, encgroup,
            wcopy, iter, written, written_frames, captured, submitted>>

\* line 142: if(th_)
\* (a faulty test that never finds a thread)
already_running_mut(th) == FALSE
already_running(th) == th # 0

\* lines 141-157: start throws "already running" when th_ is set, else it
\* creates the thread, which enters run()
WriterStart ==
    /\ spc \notin {"joining", "destroying", "destroyed"}
    /\ calls < MaxCalls
    /\ calls' = calls + 1
    /\ IF already_running(th_)
       THEN /\ spc' = "already_running"
            /\ UNCHANGED <<th_, nthr, wpc>>
       ELSE /\ th_' = 1
            /\ nthr' = nthr + 1
            /\ wpc' = "pop"
            /\ spc' = "started"
    /\ UNCHANGED <<run, wrRest>>

\* lines 159-163: stop returns at once when th_ is null, else run_ = false
\* and it waits in th_->join()
WriterStop ==
    /\ spc \notin {"joining", "destroying", "destroyed"}
    /\ calls < MaxCalls
    /\ calls' = calls + 1
    /\ IF th_ = 0
       THEN spc' = "noop" /\ run' = run
       ELSE spc' = "joining" /\ run' = FALSE
    /\ UNCHANGED <<th_, nthr, wpc, wrRest>>

\* lines 163-166: the thread has ended and join returns; delete th_,
\* th_ = 0, run_ = true
WriterJoined ==
    /\ spc \in {"joining", "destroying"}
    /\ wpc = "done"
    /\ wpc' = "idle"
    /\ nthr' = nthr - 1
    /\ th_' = 0
    /\ run' = TRUE
    /\ spc' = IF spc = "joining" THEN "stopped" ELSE "destroyed"
    /\ UNCHANGED <<calls, wrRest>>

\* lines 169-171: the destructor calls stop; the instance is gone after it
WriterDestroy ==
    /\ spc \notin {"joining", "destroying", "destroyed"}
    /\ IF th_ = 0
       THEN spc' = "destroyed" /\ run' = run
       ELSE spc' = "destroying" /\ run' = FALSE
    /\ UNCHANGED <<th_, nthr, wpc, calls, wrRest>>

NextWriter ==
    \/ WriterStart
    \/ WriterStop
    \/ WriterJoined
    \/ WriterDestroy
    \/ WriterPopTimeout
    \/ WriterCheckRun
    \/ Flush

InitWriter == PoolIdle /\ QueueIdle /\ SessIdle /\ CapIdle /\ PipeIdle /\ ErrIdle /\ WrInit

SpecWriter == InitWriter /\ [][NextWriter]_vars

\* ---------------------------------------------------------------------
\* C39: a writer instance has at most one thread: the thread runs exactly
\* while th_ is set; start on a running writer fails with "already running"
\* and changes neither the thread, the handle nor run_; stop on a writer
\* that is not running changes nothing; when stop has returned th_ is null,
\* no thread runs and run_ is true, and a start after it runs a new loop.
C39_AtMostOneWriterThread ==
    /\ [](nthr <= 1 /\ (nthr = 1 <=> th_ # 0) /\ (wpc # "idle" <=> nthr = 1))
    /\ []((spc \in {"stopped", "destroyed"}) => (th_ = 0 /\ nthr = 0 /\ run))
    /\ [][(calls' # calls /\ spc' \in {"already_running", "noop"})
             => UNCHANGED <<th_, nthr, run, wpc>>]_vars
    /\ [][(calls' # calls /\ spc' = "already_running") => th_ # 0]_vars
    /\ [][(calls' # calls /\ spc' = "noop") => th_ = 0]_vars
    /\ [][(calls' # calls /\ spc' = "started") => (nthr = 0 /\ wpc' = "pop" /\ run')]_vars

\* C39 happens: a writer that was stopped is started again, and a second
\* start has failed
C39_Witness ==
    /\ spc = "already_running"
    /\ calls >= 4
    /\ nthr = 1
    /\ th_ # 0
    /\ run

=============================================================================
